---- MODULE Spec2Model ----
(***************************************************************************)
(* Model of the PhotoSlide media delivery and playback engine.             *)
(*                                                                         *)
(*   Playback   src/src/pages/Slideshow.tsx  (Slideshow, SlideImage)       *)
(*   Disk cache src/electron/main.ts (photos:get-image, photos:get-video)  *)
(*              src/unnamed/part_002 (PhotosApiService.cacheImage, ...)    *)
(*   Fetch      src/unnamed/part_002 (PhotosApiService.fetchWithRetry)     *)
(*   Refresh    src/src/pages/Slideshow.tsx (refreshBaseUrls),             *)
(*              src/unnamed/part_002 (PhotosApiService.refreshBaseUrls)    *)
(*   Schedule   src/electron/main.ts (checkSchedule), src/src/App.tsx      *)
(*   Token      src/src/pages/Slideshow.tsx (GoogleAuthService)            *)
(*   Preloader  src/src/pages/Slideshow.tsx (preloadNextImages)            *)
(*   Order      src/src/pages/Slideshow.tsx (loadMediaItems)               *)
(*   Grid       src/electron/main.ts (checkSchedule)                       *)
(*   Mount/exit src/src/pages/Slideshow.tsx (mount effect, cleanup),       *)
(*              src/electron/main.ts (power:prevent-sleep)                 *)
(*                                                                         *)
(* Every component has its own specification over the shared variables;    *)
(* the variables of the other components keep their initial values.        *)
(***************************************************************************)
EXTENDS Integers, Sequences, FiniteSets, TLC

VARIABLES
    \* ---- renderer: Slideshow component state (Slideshow.tsx 179-201)
    mediaItems,      \* useState<MediaItem[]>([]): sequence of [id, kind]
    currentIndex,    \* useState(0), 0-based
    previousIndex,   \* useState<number | null>(null)
    isPlaying,       \* useState(true)
    isTransitioning, \* useState(false)
    loadDone,        \* loadMediaItems has run (it runs once per mount)
    error,           \* useState<string | null>(null): an error is set
    refreshTimerSet, \* refreshTimerRef.current holds an interval
    q50,             \* pending 50 ms timeouts of transitionTo, oldest first,
                     \* each holding the newIndex its closure captured
    q500,            \* number of pending transitionDuration timeouts
    keyClosure,      \* state captured by the keydown listener's closures
    slide,           \* the SlideImage mounted for the current item
    memCache,        \* slideshowImageCache (module-level Map), its keys
    nextRun,         \* history: the run of accepted goToNext calls, each
                     \* made in a settled state, since index start: how
                     \* many calls (start = NoIndex: no such run)
    stalled,         \* history: a load of the current item failed or timed
                     \* out, and since then neither has setCurrentIndex run
                     \* nor have the item's bytes arrived
    \* ---- main process: disk cache
    files,           \* image-cache and video-cache directories: name -> file
    mtimeOrder,      \* the file names sorted by mtime, oldest first
    accessOrder,     \* history: the file names by last access (write or
                     \* cache hit), oldest first
    inflight,        \* IPC handlers suspended at their download: how many
                     \* per <<operation, id>>
    lastReply,       \* the reply of the IPC handler that returned last
    fetchCalls,      \* fetch(url) calls that handler made for it
    requests,        \* history: how many IPC requests the main process took
    \* ---- main process: PhotosApiService.fetchWithRetry
    fwr,             \* one invocation: loop counter, position, history
    \* ---- locator refresh (Slideshow.tsx 382-409, part_002 290-326)
    clock,           \* Date.now(), in minutes since loadMediaItems
    refreshIds,      \* ids of sortedItems, captured by the setInterval
                     \* callback of loadMediaItems
    baseUrls,        \* renderer mediaItems: id -> [baseUrl, cachedAt]
    cachedItems,     \* main store 'mediaItems': id -> [baseUrl, cachedAt]
    refresh,         \* the refresh call in progress (renderer and handler)
    refreshLog,      \* history: completed refresh calls, and the ids the
                     \* last one brought no locator for
    \* ---- schedule gate (main.ts 46-49, 326-330, 627-671; App.tsx 35-74)
    lastScheduleState,  \* boolean | null, as "true" / "false" / NULL
    isSlideshowRunning, \* set by slideshow:set-state
    channel,         \* 'schedule:state-changed' messages sent and not yet
                     \* delivered to the renderer, oldest first
    listening,       \* App registered its scheduleStateChanged listener
    awaiting,        \* listener invocations suspended at their await
    route,           \* window.location.pathname: "albums" or "slideshow"
    picked,          \* length of the stored pickedMediaItems
    lastNavigate,    \* history: what the listener invocation that resumed
                     \* last navigated to ("none" when it did not)
    checks,          \* history: how many times checkSchedule has run
    \* ---- access token (GoogleAuthService, Slideshow.tsx 677-907)
    tokens,          \* this.tokens: [access, refresh, expiry]
    now,             \* Date.now()
    tokenPc,         \* getAccessToken calls: "idle" or "refreshing"
    lastReturn,      \* history: what the getAccessToken call that returned
                     \* last returned, and when
    issued,          \* history: how many access tokens were issued
    \* ---- preloader (Slideshow.tsx 412-461)
    preloaded,       \* preloadedImagesRef.current: a set of ids
    preIndex,        \* currentIndex of the render whose effect ran last
    preLength,       \* mediaItems.length (0 before the load)
    lastGrown,       \* history: the set after the loop of the last call
    lastFetched,     \* history: the ids the last call sent a getImage or
                     \* getVideo request for, in the order of the requests
    lastSettled,     \* history: those of them whose promise has settled
    \* ---- order at load (Slideshow.tsx 340-376)
    pickedMediaItems, \* the stored list
    photoOrder,      \* settings.photoOrder
    sortedItems,     \* what setMediaItems was called with
    \* ---- schedule grid (main.ts 637-644)
    timeGrid,        \* settings.schedule.timeGrid
    gridRead,        \* history: what the last checkSchedule computed
    \* ---- mount and exit of the Slideshow page (Slideshow.tsx 229-391)
    mountedInstance, \* the mounted instance of the page, 0 when it is left
    mounts,          \* history: how many times the page was mounted
    loadPc,          \* where the loadMediaItems of each instance stands
    refreshTimerRef, \* refreshTimerRef.current of each instance holds a
                     \* running interval
    powerChannel,    \* power:prevent-sleep requests sent and not handled
    powerSaveId,     \* main.ts powerSaveId !== null
    activeBlockers,  \* power-save blockers started and not stopped
    firings,         \* history: how many times a refresh interval fired
    firedAfterExit   \* history: an interval fired whose page had been left

playVars  == <<mediaItems, currentIndex, previousIndex, isPlaying,
               isTransitioning, loadDone, q50, q500, keyClosure, slide,
               memCache, stalled, nextRun, error, refreshTimerSet>>
cacheVars == <<files, mtimeOrder, accessOrder, inflight, lastReply, fetchCalls,
               requests>>
fetchVars == <<fwr>>
refreshVars == <<clock, refreshIds, baseUrls, cachedItems, refresh,
                 refreshLog>>
schedVars == <<lastScheduleState, isSlideshowRunning, channel, listening,
               awaiting, route, picked, lastNavigate, checks>>
tokenVars == <<tokens, now, tokenPc, lastReturn, issued>>
preloadVars == <<preloaded, preIndex, preLength, lastGrown, lastFetched,
                 lastSettled>>
sortVars  == <<pickedMediaItems, photoOrder, sortedItems>>
gridVars  == <<timeGrid, gridRead>>
lifeVars  == <<mountedInstance, mounts, loadPc, refreshTimerRef, powerChannel,
               powerSaveId, activeBlockers, firings, firedAfterExit>>
vars      == <<playVars, cacheVars, fetchVars, refreshVars, schedVars,
               tokenVars, preloadVars, sortVars, gridVars, lifeVars>>

NULL == "null"

\* previousIndex = null (useState<number | null>(null), line 181)
NoIndex == -1

(***************************************************************************)
(* Bounds of the model.                                                    *)
(***************************************************************************)
MaxItems  == 3   \* longest media sequence loaded
MaxTimers == 2   \* most transitionTo timeouts pending together
MaxIds    == 2   \* media item ids the main process is asked for
MaxInflight == 2 \* most IPC downloads in progress together
MaxRequests == 4 \* IPC requests the main process takes in one run
MaxPeriods == 2  \* firings of the locator refresh timer
MaxLatency == 1  \* minutes a refresh call takes at most
MaxChecks == 3   \* runs of checkSchedule
MaxPicked == 1   \* most stored picked items
MaxTime == 5     \* Date.now() stops here
MaxExpiresIn == 2 \* largest expires_in of a token response
MaxCallers == 2  \* getAccessToken calls in progress together
MaxIssued == 3   \* access tokens issued in one run
MaxPreloadItems == 12 \* longest list the preloader walks
MaxStored == 3   \* longest stored list that is ordered
MaxDay == 1      \* last day of a creationTime
MaxMounts == 2   \* times the Slideshow page is mounted
MaxFirings == 2  \* firings of refresh intervals

(***************************************************************************)
(* PLAYBACK: Slideshow.tsx                                                 *)
(***************************************************************************)
Kinds == {"image", "video"}

\* The sequences loadMediaItems may find in the store: ids 1..n, any kinds.
ItemLists ==
    UNION { { [i \in 1..n |-> [id |-> i, kind |-> k[i]]] : k \in [1..n -> Kinds] }
            : n \in 0..MaxItems }

Length == Len(mediaItems)

\* mediaItems[idx] is defined
InRange(items, idx) == idx \in 0..(Len(items) - 1)

\* mediaItems[idx]?.id, 0 standing for undefined
IdAt(items, idx) == IF InRange(items, idx) THEN items[idx + 1].id ELSE 0

\* Variant that takes no item for a video
isCurrentVideoNever == FALSE

\* currentMedia?.mimeType?.startsWith('video/'), lines 270-271
isCurrentVideo ==
    InRange(mediaItems, currentIndex) /\ mediaItems[currentIndex + 1].kind = "video"

\* Variant without the modulo: currentIndex + 1
NextIndexNoWrap(idx, len) == idx + 1
\* (currentIndex + 1) % mediaItems.length
NextIndex(idx, len) == (idx + 1) % len

\* (currentIndex - 1 + mediaItems.length) % mediaItems.length
PrevIndex(idx, len) == (idx - 1 + len) % len

PendingTimers == Len(q50) + q500

\* SlideImage: no current item is rendered
NoSlide == [id |-> 0, isLoading |-> FALSE, mediaSrc |-> FALSE,
            effIsLoading |-> FALSE, fetch |-> "none", timer |-> FALSE,
            ended |-> FALSE]

\* SlideImage's effect body (loadMedia) for item id. stateIsLoading is the
\* isLoading of the render that created the effect: the setTimeout callback
\* closes over it. s is the component state the effect starts from.
RunEffect(s, id, stateIsLoading, cache) ==
    IF id \in cache
    THEN [s EXCEPT !.id = id, !.isLoading = FALSE, !.mediaSrc = TRUE,
                   !.effIsLoading = stateIsLoading, !.fetch = "none",
                   !.timer = FALSE]
    ELSE [s EXCEPT !.id = id, !.isLoading = TRUE,
                   !.effIsLoading = stateIsLoading, !.fetch = "pending",
                   !.timer = TRUE]

\* Dependencies whose change re-creates handleLoadTimeout, and with it
\* re-runs SlideImage's effect: [mediaItems.length, currentIndex, transitionTo]
\* and transitionTo's [currentIndex, isTransitioning, ..., mediaItems.length].
Deps(items, idx, trans) == <<Len(items), idx, trans>>

\* One React render after a batch of state updates. s is SlideImage's state
\* after the batch. The wrapper div is keyed by currentMedia.id: another id
\* mounts a fresh SlideImage (isLoading = true), the same id with a new
\* onLoadTimeout re-runs the effect (its cleanup cancels the load under way).
Render(s, oldDeps, items, idx, trans, cache) ==
    LET id == IdAt(items, idx) IN
    IF id = 0 THEN NoSlide
    ELSE IF id # s.id THEN RunEffect(NoSlide, id, TRUE, cache)
    ELSE IF Deps(items, idx, trans) # oldDeps THEN RunEffect(s, id, s.isLoading, cache)
    ELSE s

OldDeps == Deps(mediaItems, currentIndex, isTransitioning)

\* Variant of transitionTo without the isTransitioning test
transitionToUndebounced(newIndex, cIdx, cTrans, cLen, s) ==
    IF cLen = 0
    THEN /\ UNCHANGED <<isTransitioning, previousIndex, q50>>
         /\ slide' = s
    ELSE /\ isTransitioning' = TRUE
         /\ previousIndex' = cIdx
         /\ q50' = Append(q50, newIndex)
         /\ slide' = Render(s, OldDeps, mediaItems, currentIndex, TRUE, memCache)

\* transitionTo(newIndex) called through a closure that captured
\* (cIdx, cTrans, cLen); s is SlideImage's state after the caller's own
\* updates. Lines 251-267.
transitionTo(newIndex, cIdx, cTrans, cLen, s) ==
    IF cTrans \/ cLen = 0
    THEN /\ UNCHANGED <<isTransitioning, previousIndex, q50>>
         /\ slide' = s
    ELSE /\ isTransitioning' = TRUE
         /\ previousIndex' = cIdx
         /\ q50' = Append(q50, newIndex)
         /\ slide' = Render(s, OldDeps, mediaItems, currentIndex, TRUE, memCache)

\* No transition in progress and no transition timeout pending
Settled == ~isTransitioning /\ PendingTimers = 0

NoRun == [start |-> NoIndex, n |-> 0]

\* nextRun after a goToNext call: an accepted call made in a settled state
\* starts a run or continues the one in progress; a call that was dropped
\* leaves the run as it is.
RunAfterNext ==
    IF q50' = q50 THEN nextRun
    ELSE IF ~Settled THEN NoRun
    ELSE IF nextRun.start = NoIndex \/ nextRun.n >= Length
    THEN [start |-> currentIndex, n |-> 1]
    ELSE [nextRun EXCEPT !.n = @ + 1]

\* nextRun after any other handler: an index change it queued, or a new
\* list, ends the run.
RunAfterOther ==
    IF q50' # q50 \/ mediaItems' # mediaItems THEN NoRun ELSE nextRun

\* A step of the renderer leaves the main process alone.
OnlyPlayback == UNCHANGED <<cacheVars, fetchVars, refreshVars, schedVars,
                              tokenVars, preloadVars, sortVars,
     gridVars, lifeVars>>

PlayInit ==
    /\ nextRun = NoRun
    /\ error = FALSE
    /\ refreshTimerSet = FALSE
    /\ mediaItems = <<>>
    /\ currentIndex = 0
    /\ previousIndex = NoIndex
    /\ isPlaying = TRUE
    /\ isTransitioning = FALSE
    /\ loadDone = FALSE
    /\ q50 = <<>>
    /\ q500 = 0
    /\ keyClosure = [currentIndex |-> 0, isTransitioning |-> FALSE, length |-> 0]
    /\ slide = NoSlide
    /\ memCache = {}
    /\ stalled = FALSE

\* Variant that goes on to the timers whatever the list holds
ReachesTimersAlways(items) == TRUE
\* loadMediaItems returns at lines 348-351, with setError, when the store
\* holds no item: setMediaItems, preventSleep and the setInterval of the
\* locator refresh (lines 378-384) are reached only with items.
ReachesTimers(items) == Len(items) > 0

\* loadMediaItems, lines 335-391: setMediaItems(sortedItems). The keydown
\* effect has the dependency [mediaItems.length]: it re-subscribes, with the
\* goToNext/goToPrevious of this render, only when the length changes.
LoadMediaItems ==
    /\ OnlyPlayback
    /\ ~loadDone
    /\ loadDone' = TRUE
    /\ \E items \in ItemLists :
          /\ mediaItems' = items
          /\ keyClosure' = IF Len(items) # Len(mediaItems)
                           THEN [currentIndex |-> currentIndex,
                                 isTransitioning |-> isTransitioning,
                                 length |-> Len(items)]
                           ELSE keyClosure
          /\ slide' = Render(slide, OldDeps, items, currentIndex,
                             isTransitioning, memCache)
    /\ UNCHANGED <<currentIndex, previousIndex, isPlaying, isTransitioning,
                   q50, q500, memCache, stalled>>
    /\ nextRun' = RunAfterOther
    /\ error' = ~ReachesTimers(mediaItems')
    /\ refreshTimerSet' = ReachesTimers(mediaItems')

\* The setInterval callback of the auto-advance effect, lines 274-284. The
\* effect re-arms on every change of its dependencies, so the callback sees
\* the state of the latest render.
TimerFire ==
    /\ OnlyPlayback
    /\ isPlaying /\ Length > 0 /\ ~isTransitioning /\ ~isCurrentVideo
    /\ PendingTimers < MaxTimers
    /\ transitionTo(NextIndex(currentIndex, Length), currentIndex,
                    isTransitioning, Length, slide)
    /\ UNCHANGED <<mediaItems, currentIndex, isPlaying, loadDone, q500,
                   keyClosure, memCache, stalled>>
    /\ nextRun' = RunAfterOther
    /\ UNCHANGED <<error, refreshTimerSet>>

\* The first setTimeout of transitionTo (50 ms): setCurrentIndex(newIndex),
\* then the second timeout is set. Lines 260-266.
Stage1Fire ==
    /\ OnlyPlayback
    /\ q50 # <<>>
    /\ currentIndex' = Head(q50)
    /\ q50' = Tail(q50)
    /\ q500' = q500 + 1
    /\ slide' = Render(slide, OldDeps, mediaItems, Head(q50), isTransitioning,
                       memCache)
    /\ stalled' = FALSE
    /\ UNCHANGED <<mediaItems, previousIndex, isPlaying, isTransitioning,
                   loadDone, keyClosure, memCache>>
    /\ UNCHANGED nextRun
    /\ UNCHANGED <<error, refreshTimerSet>>

\* The second setTimeout (transitionDuration): lines 262-265.
Stage2Fire ==
    /\ OnlyPlayback
    /\ q500 > 0
    /\ q500' = q500 - 1
    /\ previousIndex' = NoIndex
    /\ isTransitioning' = FALSE
    /\ slide' = Render(slide, OldDeps, mediaItems, currentIndex, FALSE, memCache)
    /\ UNCHANGED <<mediaItems, currentIndex, isPlaying, loadDone, q50,
                   keyClosure, memCache, stalled>>
    /\ UNCHANGED nextRun
    /\ UNCHANGED <<error, refreshTimerSet>>

\* The on-screen buttons call the goToNext / goToPrevious of the current
\* render (lines 601, 619); they are rendered once the list is loaded.
ControlsRendered == loadDone /\ Length > 0

goToNextButton ==
    /\ OnlyPlayback
    /\ ControlsRendered
    /\ PendingTimers < MaxTimers
    /\ transitionTo(NextIndex(currentIndex, Length), currentIndex,
                    isTransitioning, Length, slide)
    /\ UNCHANGED <<mediaItems, currentIndex, isPlaying, loadDone, q500,
                   keyClosure, memCache, stalled>>
    /\ nextRun' = RunAfterNext
    /\ UNCHANGED <<error, refreshTimerSet>>

goToPreviousButton ==
    /\ OnlyPlayback
    /\ ControlsRendered
    /\ PendingTimers < MaxTimers
    /\ transitionTo(PrevIndex(currentIndex, Length), currentIndex,
                    isTransitioning, Length, slide)
    /\ UNCHANGED <<mediaItems, currentIndex, isPlaying, loadDone, q500,
                   keyClosure, memCache, stalled>>
    /\ nextRun' = RunAfterOther
    /\ UNCHANGED <<error, refreshTimerSet>>

\* handleKeyDown, lines 301-325: ArrowRight / ArrowLeft call the goToNext /
\* goToPrevious captured when the listener was last subscribed.
KeyArrowRight ==
    /\ OnlyPlayback
    /\ PendingTimers < MaxTimers
    /\ IF keyClosure.length = 0
       THEN UNCHANGED <<isTransitioning, previousIndex, q50, slide>>
       ELSE transitionTo(NextIndex(keyClosure.currentIndex, keyClosure.length),
                         keyClosure.currentIndex, keyClosure.isTransitioning,
                         keyClosure.length, slide)
    /\ UNCHANGED <<mediaItems, currentIndex, isPlaying, loadDone, q500,
                   keyClosure, memCache, stalled>>
    /\ nextRun' = RunAfterOther
    /\ UNCHANGED <<error, refreshTimerSet>>

KeyArrowLeft ==
    /\ OnlyPlayback
    /\ PendingTimers < MaxTimers
    /\ IF keyClosure.length = 0
       THEN UNCHANGED <<isTransitioning, previousIndex, q50, slide>>
       ELSE transitionTo(PrevIndex(keyClosure.currentIndex, keyClosure.length),
                         keyClosure.currentIndex, keyClosure.isTransitioning,
                         keyClosure.length, slide)
    /\ UNCHANGED <<mediaItems, currentIndex, isPlaying, loadDone, q500,
                   keyClosure, memCache, stalled>>
    /\ nextRun' = RunAfterOther
    /\ UNCHANGED <<error, refreshTimerSet>>

\* Variant in which pausing also drops the pending transition timeouts
togglePlayPauseCancels ==
    /\ OnlyPlayback
    /\ isPlaying' = ~isPlaying
    /\ q50' = <<>>
    /\ q500' = 0
    /\ UNCHANGED <<mediaItems, currentIndex, previousIndex, isTransitioning,
                   loadDone, keyClosure, slide, memCache, stalled>>
    /\ UNCHANGED nextRun
    /\ UNCHANGED <<error, refreshTimerSet>>

\* togglePlayPause, lines 463-466 (button or space key): setIsPlaying(prev => !prev)
togglePlayPause ==
    /\ OnlyPlayback
    /\ isPlaying' = ~isPlaying
    /\ UNCHANGED <<mediaItems, currentIndex, previousIndex, isTransitioning,
                   loadDone, q50, q500, keyClosure, slide, memCache, stalled>>
    /\ UNCHANGED nextRun
    /\ UNCHANGED <<error, refreshTimerSet>>

\* Variant of handleVideoEnd without the isPlaying test
VideoEndIgnoresPause ==
    /\ OnlyPlayback
    /\ isCurrentVideo /\ slide.mediaSrc /\ ~slide.isLoading /\ ~slide.ended
    /\ PendingTimers < MaxTimers
    /\ LET s == [slide EXCEPT !.ended = TRUE] IN
       IF Length > 0
       THEN transitionTo(NextIndex(currentIndex, Length), currentIndex,
                         isTransitioning, Length, s)
       ELSE /\ slide' = s
            /\ UNCHANGED <<isTransitioning, previousIndex, q50>>
    /\ UNCHANGED <<mediaItems, currentIndex, isPlaying, loadDone, q500,
                   keyClosure, memCache, stalled>>
    /\ nextRun' = RunAfterOther
    /\ UNCHANGED <<error, refreshTimerSet>>

\* handleVideoEnd, lines 287-291, called by the <video> element's onEnded.
VideoEnd ==
    /\ OnlyPlayback
    /\ isCurrentVideo /\ slide.mediaSrc /\ ~slide.isLoading /\ ~slide.ended
    /\ PendingTimers < MaxTimers
    /\ LET s == [slide EXCEPT !.ended = TRUE] IN
       IF isPlaying /\ Length > 0
       THEN transitionTo(NextIndex(currentIndex, Length), currentIndex,
                         isTransitioning, Length, s)
       ELSE /\ slide' = s
            /\ UNCHANGED <<isTransitioning, previousIndex, q50>>
    /\ UNCHANGED <<mediaItems, currentIndex, isPlaying, loadDone, q500,
                   keyClosure, memCache, stalled>>
    /\ nextRun' = RunAfterOther
    /\ UNCHANGED <<error, refreshTimerSet>>

\* handleLoadTimeout, lines 294-298, through the onLoadTimeout prop of the
\* latest render (the effect re-runs whenever the prop changes).
handleLoadTimeout(s) ==
    IF Length > 0
    THEN transitionTo(NextIndex(currentIndex, Length), currentIndex,
                      isTransitioning, Length, s)
    ELSE /\ slide' = s
         /\ UNCHANGED <<isTransitioning, previousIndex, q50>>

\* loadMedia, lines 79-105 and 111-116: getVideo / getImage resolved with
\* success; the load was not cancelled.
FetchSucceeds ==
    /\ OnlyPlayback
    /\ slide.fetch = "pending"
    /\ stalled' = FALSE
    /\ memCache' = memCache \cup {slide.id}
    /\ slide' = [slide EXCEPT !.fetch = "none", !.timer = FALSE,
                              !.mediaSrc = TRUE, !.isLoading = FALSE]
    /\ UNCHANGED <<mediaItems, currentIndex, previousIndex, isPlaying,
                   isTransitioning, loadDone, q50, q500, keyClosure>>
    /\ nextRun' = RunAfterOther
    /\ UNCHANGED <<error, refreshTimerSet>>

\* loadMedia, lines 91-94, 102-104, 106-116: the call resolved with
\* success false, or threw: onLoadTimeout(), then setIsLoading(false) and
\* clearTimeout in the finally block.
FetchFails ==
    /\ OnlyPlayback
    /\ slide.fetch = "pending"
    /\ PendingTimers < MaxTimers
    /\ handleLoadTimeout([slide EXCEPT !.fetch = "none", !.timer = FALSE,
                                       !.isLoading = FALSE])
    /\ stalled' = TRUE
    /\ UNCHANGED <<mediaItems, currentIndex, isPlaying, loadDone, q500,
                   keyClosure, memCache>>
    /\ nextRun' = RunAfterOther
    /\ UNCHANGED <<error, refreshTimerSet>>

\* The LOAD_TIMEOUT callback, lines 71-77: it tests the isLoading its
\* closure captured. LOAD_TIMEOUT (10 s) is far longer than a transition
\* (50 ms + transitionDuration <= 500 ms), and every accepted transition
\* re-runs the effect, which re-arms this timer: the callback never runs
\* while a transition timeout is pending.
LoadTimeoutFires ==
    /\ OnlyPlayback
    /\ slide.timer
    /\ PendingTimers = 0
    /\ IF slide.effIsLoading
       THEN handleLoadTimeout([slide EXCEPT !.timer = FALSE, !.isLoading = FALSE])
       ELSE /\ slide' = [slide EXCEPT !.timer = FALSE]
            /\ UNCHANGED <<isTransitioning, previousIndex, q50>>
    /\ stalled' = TRUE
    /\ UNCHANGED <<mediaItems, currentIndex, isPlaying, loadDone, q500,
                   keyClosure, memCache>>
    /\ nextRun' = RunAfterOther
    /\ UNCHANGED <<error, refreshTimerSet>>

PlayNext ==
    \/ LoadMediaItems
    \/ TimerFire
    \/ Stage1Fire
    \/ Stage2Fire
    \/ goToNextButton
    \/ goToPreviousButton
    \/ KeyArrowRight
    \/ KeyArrowLeft
    \/ togglePlayPause
    \/ VideoEnd
    \/ FetchSucceeds
    \/ FetchFails
    \/ LoadTimeoutFires

(***************************************************************************)
(* DISK CACHE: main.ts photos:get-image / photos:get-video / clear, and    *)
(* part_002 PhotosApiService.cacheImage / cleanupCacheIfNeeded / clearCache *)
(*                                                                         *)
(* Sizes are counted in units of 50 MiB, so that MAX_CACHE_SIZE            *)
(* (500 * 1024 * 1024 bytes) is 10 units and its 70% target is 7.          *)
(***************************************************************************)
MAX_CACHE_SIZE == 10

\* const targetSize = MAX_CACHE_SIZE * 0.7
targetSize == (MAX_CACHE_SIZE * 7) \div 10

Ids == 1..MaxIds

\* What the upstream serves for an item: the same on every download.
Bytes(id) == SubSeq(<<77, 97, 110>>, 1, (id % 3) + 1)
Units(id) == 4 + (id % 2)
\* response.headers.get('content-type'): absent for some items
ContentTypeHeader(id) == IF id % 2 = 1 THEN "image/png" ELSE NULL

\* Buffer.from(buffer).toString('base64'): sextets 0..63, 64 for '='
RECURSIVE Base64(_)
Base64(b) ==
    IF b = <<>> THEN <<>>
    ELSE IF Len(b) = 1
    THEN <<b[1] \div 4, (b[1] % 4) * 16, 64, 64>>
    ELSE IF Len(b) = 2
    THEN <<b[1] \div 4, (b[1] % 4) * 16 + b[2] \div 16, (b[2] % 16) * 4, 64>>
    ELSE <<b[1] \div 4, (b[1] % 4) * 16 + b[2] \div 16,
           (b[2] % 16) * 4 + b[3] \div 64, b[3] % 64>>
         \o Base64(SubSeq(b, 4, Len(b)))

\* What the img element decodes from the base64 part of a data URL.
RECURSIVE Base64Decode(_)
Base64Decode(c) ==
    IF c = <<>> THEN <<>>
    ELSE LET b1 == c[1] * 4 + c[2] \div 16
             b2 == (c[2] % 16) * 16 + c[3] \div 4
             b3 == (c[3] % 4) * 64 + c[4]
         IN  IF c[3] = 64 THEN <<b1>>
             ELSE IF c[4] = 64 THEN <<b1, b2>>
             ELSE <<b1, b2, b3>> \o Base64Decode(SubSeq(c, 5, Len(c)))

\* `data:${contentType};base64,${base64}` with
\* contentType = response.headers.get('content-type') || 'image/jpeg'
DataUrl(header, bytes) ==
    <<"data:", IF header = NULL THEN "image/jpeg" ELSE header, ";base64,",
      Base64(bytes)>>

\* The file size of a data URL of u units of bytes: base64 writes 4
\* characters for every 3 bytes.
DataUrlUnits(u) == (4 * u + 2) \div 3

\* path.join(cacheDir, `${cacheKey}.cache`) with cacheKey = imageId; the
\* slideshow passes `slide-${item.id}` (main.ts 504-505, Slideshow.tsx 97)
cachePath(id) == <<"image-cache", "slide-", id, "cache">>
\* path.join(cacheDir, `${mediaItem.id}.${extension}`) (part_002 336-337)
localPath(id) == <<"image-cache", "", id, "jpeg">>
\* path.join(cacheDir, `${videoId}.mp4`) (main.ts 582-587)
videoPath(id) == <<"video-cache", "", id, "mp4">>

ImageCacheNames == {cachePath(id) : id \in Ids} \cup {localPath(id) : id \in Ids}
VideoCacheNames == {videoPath(id) : id \in Ids}
FileNames == ImageCacheNames \cup VideoCacheNames

Absent == [state |-> "absent", size |-> 0, data |-> <<>>]

\* fs.existsSync(path)
existsSync(f, name) == f[name].state # "absent"

RECURSIVE SumSizes(_, _)
SumSizes(f, names) ==
    IF names = {} THEN 0
    ELSE LET n == CHOOSE x \in names : TRUE
         IN  f[n].size + SumSizes(f, names \ {n})

\* the bytes under image-cache, as cleanupCacheIfNeeded and getCacheStats add them up
ImageCacheSize(f) == SumSizes(f, ImageCacheNames)
\* the bytes of all cache entries on disk
TotalBytes(f) == SumSizes(f, FileNames)

Remove(seq, x) == SelectSeq(seq, LAMBDA y : y # x)
\* a write sets the file's mtime to now: it becomes the newest
Touch(seq, x) == Append(Remove(seq, x), x)
Ops == {"image", "video", "orig"}
InflightTotal ==
    LET RECURSIVE Sum(_)
        Sum(S) == IF S = {} THEN 0
                  ELSE LET k == CHOOSE x \in S : TRUE
                       IN  inflight[k] + Sum(S \ {k})
    IN  Sum(Ops \X Ids)

\* cleanupCacheIfNeeded, part_002 367-403: the files it unlinks. order is
\* fileStats sorted by mtime, oldest first; remaining is totalSize - deletedSize.
RECURSIVE Unlinked(_, _, _)
Unlinked(f, order, remaining) ==
    IF order = <<>> \/ remaining <= targetSize THEN {}
    ELSE {Head(order)} \cup
         Unlinked(f, Tail(order), remaining - f[Head(order)].size)

cleanupCacheIfNeeded(f, order) ==
    IF ImageCacheSize(f) > MAX_CACHE_SIZE
    THEN Unlinked(f, order, ImageCacheSize(f))
    ELSE {}

RemoveAll(seq, S) == SelectSeq(seq, LAMBDA y : y \notin S)

Reply(op, id, ok, hit, data, complete) ==
    [op |-> op, id |-> id, ok |-> ok, hit |-> hit, data |-> data,
     complete |-> complete]
NoReply == Reply("none", 0, FALSE, FALSE, <<>>, FALSE)

\* A step of the main process leaves the renderer alone.
OnlyCache == UNCHANGED <<playVars, fetchVars, refreshVars, schedVars,
                           tokenVars, preloadVars, sortVars,
     gridVars, lifeVars>>

\* ipcMain takes one more request
TakeRequest == requests < MaxRequests /\ requests' = requests + 1

CacheInit ==
    /\ files = [n \in FileNames |-> Absent]
    /\ mtimeOrder = <<>>
    /\ accessOrder = <<>>
    /\ inflight = [k \in Ops \X Ids |-> 0]
    /\ lastReply = NoReply
    /\ fetchCalls = 0
    /\ requests = 0

\* fs.readFileSync(cachePath, 'utf8') of the hit branch, main.ts 508-511
ReadCached(f, id) == f[cachePath(id)].data

\* photos:get-image, main.ts 507-515: the cached file exists and is returned.
GetImageHit(id) ==
    /\ OnlyCache
    /\ TakeRequest
    /\ existsSync(files, cachePath(id))
    /\ lastReply' = Reply("image", id, TRUE, TRUE, ReadCached(files, id),
                          files[cachePath(id)].state = "complete")
    /\ fetchCalls' = 0
    /\ accessOrder' = Touch(accessOrder, cachePath(id))
    /\ UNCHANGED <<files, mtimeOrder, inflight>>

\* photos:get-image, main.ts 507-527: no cached file; the handler waits for
\* the token and then for the download.
GetImageMiss(id) ==
    /\ OnlyCache
    /\ TakeRequest
    /\ ~existsSync(files, cachePath(id))
    /\ InflightTotal < MaxInflight
    /\ inflight' = [inflight EXCEPT ![<<"image", id>>] = @ + 1]
    /\ UNCHANGED <<files, mtimeOrder, accessOrder, lastReply, fetchCalls>>

\* Variant: only the base64 text is written, without the data: prefix
WrittenBase64Only(id) ==
    [state |-> "complete", size |-> DataUrlUnits(Units(id)),
     data |-> <<"", "", "", Base64(Bytes(id))>>]

\* What fs.writeFileSync(cachePath, dataUrl) leaves on disk, main.ts 533-540
WrittenDataUrl(id) ==
    [state |-> "complete", size |-> DataUrlUnits(Units(id)),
     data |-> DataUrl(ContentTypeHeader(id), Bytes(id))]

\* photos:get-image, main.ts 529-545: the download answered ok; the data
\* URL is written (a failed write is ignored) and returned.
ImageFetchOk(id) ==
    /\ OnlyCache
    /\ UNCHANGED requests
    /\ inflight[<<"image", id>>] > 0
    /\ inflight' = [inflight EXCEPT ![<<"image", id>>] = @ - 1]
    /\ \E wrote \in BOOLEAN :
          IF wrote
          THEN /\ files' = [files EXCEPT ![cachePath(id)] = WrittenDataUrl(id)]
               /\ mtimeOrder' = Touch(mtimeOrder, cachePath(id))
               /\ accessOrder' = Touch(accessOrder, cachePath(id))
          ELSE UNCHANGED <<files, mtimeOrder, accessOrder>>
    /\ lastReply' = Reply("image", id, TRUE, FALSE,
                          DataUrl(ContentTypeHeader(id), Bytes(id)), TRUE)
    /\ fetchCalls' = 1

\* fetchWithRetry's parameters, part_002 (used by the handlers' download
\* below and by the retrying fetch)
MAX_RETRIES == 3
INITIAL_DELAY == 1000

\* What one fetch(url) call can end with: a response status, or a
\* rejection (no response), written TransportFailure.
TransportFailure == 0
Outcomes == {200, 404, 429, 500, 503, TransportFailure}

\* response.ok
Ok(status) == status \in 200..299

\* What the download of a handler can end with: no token (no fetch call),
\* or one of the outcomes of one fetch(url) call that is not ok.
NoToken == -1
Failures == {NoToken} \cup {o \in Outcomes : ~Ok(o)}

\* The error of the failure reply: '인증이 필요합니다', `HTTP ${response.status}`
\* or String(error)
ErrorText(failure) ==
    IF failure = NoToken THEN <<"auth">>
    ELSE IF failure = TransportFailure THEN <<"Error">>
    ELSE <<"HTTP", failure>>

\* The fetch(url) calls made before the failure reply: the handlers call
\* fetch once and return on its answer (main.ts 523-531, 600-610)
FetchCalls(failure) == IF failure = NoToken THEN 0 ELSE 1

\* photos:get-image, main.ts 517-520, 529-531, 546-549: no token, a status
\* that is not ok, or an exception.
ImageFetchFails(id) ==
    /\ OnlyCache
    /\ UNCHANGED requests
    /\ inflight[<<"image", id>>] > 0
    /\ inflight' = [inflight EXCEPT ![<<"image", id>>] = @ - 1]
    /\ \E failure \in Failures :
          /\ lastReply' = Reply("image", id, FALSE, FALSE, ErrorText(failure),
                                FALSE)
          /\ fetchCalls' = FetchCalls(failure)
    /\ UNCHANGED <<files, mtimeOrder, accessOrder>>

\* photos:get-video, main.ts 590-594: the file exists, its path is returned.
GetVideoHit(id) ==
    /\ OnlyCache
    /\ TakeRequest
    /\ existsSync(files, videoPath(id))
    /\ lastReply' = Reply("video", id, TRUE, TRUE, videoPath(id),
                          files[videoPath(id)].state = "complete")
    /\ fetchCalls' = 0
    /\ UNCHANGED <<files, mtimeOrder, accessOrder, inflight>>

\* photos:get-video, main.ts 590-604: no file; the download starts.
GetVideoMiss(id) ==
    /\ OnlyCache
    /\ TakeRequest
    /\ ~existsSync(files, videoPath(id))
    /\ InflightTotal < MaxInflight
    /\ inflight' = [inflight EXCEPT ![<<"video", id>>] = @ + 1]
    /\ UNCHANGED <<files, mtimeOrder, accessOrder, lastReply, fetchCalls>>

\* photos:get-video, main.ts 608-622: the download answered ok; the bytes
\* are written. writeFileSync throwing lands in the handler's catch.
VideoFetchOk(id) ==
    /\ OnlyCache
    /\ UNCHANGED requests
    /\ inflight[<<"video", id>>] > 0
    /\ inflight' = [inflight EXCEPT ![<<"video", id>>] = @ - 1]
    /\ \E wrote \in BOOLEAN :
          IF wrote
          THEN /\ files' = [files EXCEPT ![videoPath(id)] =
                               [state |-> "complete", size |-> Units(id),
                                data |-> Bytes(id)]]
               /\ lastReply' = Reply("video", id, TRUE, FALSE, videoPath(id), TRUE)
          ELSE /\ UNCHANGED files
               /\ lastReply' = Reply("video", id, FALSE, FALSE, <<"Error">>,
                                     FALSE)
    /\ fetchCalls' = 1
    /\ UNCHANGED <<mtimeOrder, accessOrder>>

\* photos:get-video, main.ts 576-579, 608-610, 619-622
VideoFetchFails(id) ==
    /\ OnlyCache
    /\ UNCHANGED requests
    /\ inflight[<<"video", id>>] > 0
    /\ inflight' = [inflight EXCEPT ![<<"video", id>>] = @ - 1]
    /\ \E failure \in Failures :
          /\ lastReply' = Reply("video", id, FALSE, FALSE, ErrorText(failure),
                                FALSE)
          /\ fetchCalls' = FetchCalls(failure)
    /\ UNCHANGED <<files, mtimeOrder, accessOrder>>

\* cacheImage, part_002 339-342: the file exists, its path is returned.
CacheImageExisting(id) ==
    /\ OnlyCache
    /\ TakeRequest
    /\ existsSync(files, localPath(id))
    /\ lastReply' = Reply("orig", id, TRUE, TRUE, localPath(id),
                          files[localPath(id)].state = "complete")
    /\ fetchCalls' = 0
    /\ accessOrder' = Touch(accessOrder, localPath(id))
    /\ UNCHANGED <<files, mtimeOrder, inflight>>

\* cacheImage, part_002 344-354: no file: cleanupCacheIfNeeded, then
\* fs.createWriteStream(localPath) creates the file and https.get starts.
CacheImageStart(id) ==
    /\ OnlyCache
    /\ TakeRequest
    /\ ~existsSync(files, localPath(id))
    /\ InflightTotal < MaxInflight
    /\ LET gone == cleanupCacheIfNeeded(files, mtimeOrder) IN
       /\ files' = [n \in FileNames |->
                       IF n = localPath(id)
                       THEN [state |-> "partial", size |-> 0, data |-> <<>>]
                       ELSE IF n \in gone THEN Absent ELSE files[n]]
       /\ mtimeOrder' = Append(RemoveAll(mtimeOrder, gone), localPath(id))
       /\ accessOrder' = Append(RemoveAll(accessOrder, gone), localPath(id))
    /\ inflight' = [inflight EXCEPT ![<<"orig", id>>] = @ + 1]
    /\ UNCHANGED <<lastReply, fetchCalls>>

\* cacheImage, part_002 353-358: the response was piped into the file and
\* the stream finished. A file unlinked meanwhile stays unlinked.
CacheImageFinish(id) ==
    /\ OnlyCache
    /\ UNCHANGED requests
    /\ inflight[<<"orig", id>>] > 0
    /\ inflight' = [inflight EXCEPT ![<<"orig", id>>] = @ - 1]
    /\ IF existsSync(files, localPath(id))
       THEN /\ files' = [files EXCEPT ![localPath(id)] =
                            [state |-> "complete", size |-> Units(id),
                             data |-> Bytes(id)]]
            /\ mtimeOrder' = Touch(mtimeOrder, localPath(id))
            /\ accessOrder' = Touch(accessOrder, localPath(id))
       ELSE UNCHANGED <<files, mtimeOrder, accessOrder>>
    /\ lastReply' = Reply("orig", id, TRUE, FALSE, localPath(id),
                          existsSync(files, localPath(id)))
    /\ fetchCalls' = 0

\* cacheImage, part_002 359-362: the request failed: fs.unlink(localPath)
CacheImageError(id) ==
    /\ OnlyCache
    /\ UNCHANGED requests
    /\ inflight[<<"orig", id>>] > 0
    /\ inflight' = [inflight EXCEPT ![<<"orig", id>>] = @ - 1]
    /\ files' = [files EXCEPT ![localPath(id)] = Absent]
    /\ mtimeOrder' = Remove(mtimeOrder, localPath(id))
    /\ accessOrder' = Remove(accessOrder, localPath(id))
    /\ lastReply' = Reply("orig", id, FALSE, FALSE, <<"Error">>, FALSE)
    /\ fetchCalls' = 0

\* clearCache, part_002 414-425, and photos:clear-image-cache, main.ts
\* 553-567: every file of image-cache is unlinked.
clearCache ==
    /\ OnlyCache
    /\ TakeRequest
    /\ files' = [n \in FileNames |-> IF n \in ImageCacheNames THEN Absent ELSE files[n]]
    /\ mtimeOrder' = <<>>
    /\ accessOrder' = <<>>
    /\ lastReply' = Reply("clear", 0, TRUE, FALSE, <<>>, FALSE)
    /\ fetchCalls' = 0
    /\ UNCHANGED inflight

CacheNext ==
    \/ \E id \in Ids : GetImageHit(id)
    \/ \E id \in Ids : GetImageMiss(id)
    \/ \E id \in Ids : ImageFetchOk(id)
    \/ \E id \in Ids : ImageFetchFails(id)
    \/ \E id \in Ids : GetVideoHit(id)
    \/ \E id \in Ids : GetVideoMiss(id)
    \/ \E id \in Ids : VideoFetchOk(id)
    \/ \E id \in Ids : VideoFetchFails(id)
    \/ \E id \in Ids : CacheImageExisting(id)
    \/ \E id \in Ids : CacheImageStart(id)
    \/ \E id \in Ids : CacheImageFinish(id)
    \/ \E id \in Ids : CacheImageError(id)
    \/ clearCache

(***************************************************************************)
(* RETRYING FETCH: part_002 PhotosApiService.fetchWithRetry, lines 78-130  *)
(***************************************************************************)
RECURSIVE Pow2(_)
Pow2(n) == IF n = 0 THEN 1 ELSE 2 * Pow2(n - 1)

\* INITIAL_DELAY * Math.pow(2, i)
Delay(i) == INITIAL_DELAY * Pow2(i)

\* Variant in which the loop index is not incremented
SameLoopIndex(i) == i
\* the loop's i++ (a `continue` and the end of the catch block both reach it)
NextLoopIndex(i) == i + 1

IdleFetch == [pc |-> "idle", i |-> 0, retries |-> 0, attempts |-> 0,
              waited |-> <<>>, history |-> <<>>, result |-> TransportFailure]

OnlyFetch == UNCHANGED <<playVars, cacheVars, refreshVars, schedVars,
                           tokenVars, preloadVars, sortVars,
     gridVars, lifeVars>>

FetchInit == fwr = IdleFetch

\* fetchWithRetry(url, options, retries = MAX_RETRIES): every caller takes
\* the default. Lines 78-100.
CallFetchWithRetry ==
    /\ OnlyFetch
    /\ fwr.pc = "idle"
    /\ fwr' = [fwr EXCEPT !.retries = MAX_RETRIES,
                          !.pc = IF 0 < MAX_RETRIES THEN "fetch" ELSE "threw"]

\* One pass of the loop body up to its await of the delay, lines 101-126.
Attempt(outcome) ==
    /\ OnlyFetch
    /\ fwr.pc = "fetch"
    /\ LET f == [fwr EXCEPT !.attempts = @ + 1,
                            !.history = Append(@, outcome)]
       IN  fwr' =
           IF outcome = TransportFailure
           THEN IF fwr.i = fwr.retries - 1
                THEN [f EXCEPT !.pc = "threw", !.result = outcome]
                ELSE [f EXCEPT !.pc = "wait", !.waited = Append(@, Delay(fwr.i))]
           ELSE IF outcome = 429
           THEN [f EXCEPT !.pc = "wait", !.waited = Append(@, Delay(fwr.i))]
           ELSE IF ~Ok(outcome) /\ outcome >= 500
           THEN [f EXCEPT !.pc = "wait", !.waited = Append(@, Delay(fwr.i))]
           ELSE [f EXCEPT !.pc = "returned", !.result = outcome]

\* The delay's setTimeout resolved: i++ and the loop test; after the loop,
\* throw new Error('Max retries exceeded'). Lines 100, 110-111, 117-118,
\* 125, 129.
DelayElapsed ==
    /\ OnlyFetch
    /\ fwr.pc = "wait"
    /\ LET i2 == NextLoopIndex(fwr.i) IN
       fwr' = [fwr EXCEPT !.i = i2,
                          !.pc = IF i2 < fwr.retries THEN "fetch" ELSE "threw",
                          !.result = IF i2 < fwr.retries THEN @
                                      ELSE fwr.history[Len(fwr.history)]]

FetchStep == (\E o \in Outcomes : Attempt(o)) \/ DelayElapsed

FetchNext ==
    \/ CallFetchWithRetry
    \/ \E o \in Outcomes : Attempt(o)
    \/ DelayElapsed

(***************************************************************************)
(* LOCATOR REFRESH: Slideshow.tsx loadMediaItems 381-384, refreshBaseUrls  *)
(* 394-409; main.ts photos:refresh-urls 449-462; part_002 refreshBaseUrls  *)
(* 290-326. Time is counted in minutes.                                    *)
(***************************************************************************)
\* BASE_URL_TTL = 50 * 60 * 1000 ms
BASE_URL_TTL == 50
\* batchGet takes at most 50 ids (part_002 293-295); counted here in
\* units of 25 ids
BatchSize == 2

Range(seq) == {seq[k] : k \in DOMAIN seq}
Min(a, b) == IF a < b THEN a ELSE b

\* mediaItemIds.slice(i, i + 50)
Batch(ids, i) == SubSeq(ids, i + 1, Min(i + BatchSize, Len(ids)))

\* the ids that were put in the batchGet requests sent so far
RequestedIds(r) == UNION {Range(r.requested[k]) : k \in DOMAIN r.requested}

\* Variant in which an id without a new locator loses its locator
MergedUrlOrNone(urls, id, old) == IF id \in DOMAIN urls THEN urls[id] ELSE 0
\* result.urls![item.id] || item.baseUrl (Slideshow.tsx 402)
MergedUrl(urls, id, old) == IF id \in DOMAIN urls THEN urls[id] ELSE old

IdleRefresh == [pc |-> "idle", ids |-> <<>>, i |-> 0, urlMap |-> <<>>,
                requested |-> <<>>, ok |-> FALSE]

OnlyRefresh == UNCHANGED <<playVars, cacheVars, fetchVars, schedVars,
                             tokenVars, preloadVars, sortVars,
     gridVars, lifeVars>>

\* Before loadMediaItems: no item, no timer. The locator 0 of an item is
\* the one it was picked with.
RefreshInit ==
    /\ clock = 0
    /\ refreshIds = <<>>
    /\ baseUrls = <<>>
    /\ cachedItems = <<>>
    /\ refresh = IdleRefresh
    /\ refreshLog = [periods |-> 0, absent |-> {}]

\* loadMediaItems, lines 335-391: the picked items, stamped before the
\* slideshow was opened, become the state, and the refresh interval is set
\* with sortedItems in its closure.
LoadForRefresh ==
    /\ OnlyRefresh
    /\ refreshIds = <<>>
    /\ \E n \in 1..MaxItems :
         /\ refreshIds' = [k \in 1..n |-> k]
         /\ \E at \in [1..n -> (0 - 1 - MaxLatency)..(0 - 1)] :
              /\ baseUrls' = [id \in 1..n |-> [baseUrl |-> 0, cachedAt |-> at[id]]]
              /\ cachedItems' = [id \in 1..n |-> [baseUrl |-> 0, cachedAt |-> at[id]]]
    /\ UNCHANGED <<clock, refresh, refreshLog>>

\* The setInterval callback (lines 382-384) runs refreshBaseUrls up to its
\* await: ids = items.map(item => item.id), refreshUrls(ids). Lines 394-397.
RefreshTimerFires ==
    /\ OnlyRefresh
    /\ refreshIds # <<>>
    /\ refresh.pc = "idle"
    /\ refreshLog.periods < MaxPeriods
    /\ clock' = (refreshLog.periods + 1) * BASE_URL_TTL
    /\ refresh' = [IdleRefresh EXCEPT !.pc = "token", !.ids = refreshIds]
    /\ UNCHANGED <<refreshIds, baseUrls, cachedItems, refreshLog>>

\* photos:refresh-urls, main.ts 450-455: a token is available
RefreshTokenOk ==
    /\ OnlyRefresh
    /\ refresh.pc = "token"
    /\ refresh' = [refresh EXCEPT !.pc = "batch"]
    /\ UNCHANGED <<clock, refreshIds, baseUrls, cachedItems, refreshLog>>

\* photos:refresh-urls, main.ts 451-454 and 458-461: no token (or
\* getAccessToken throws)
RefreshNoToken ==
    /\ OnlyRefresh
    /\ refresh.pc = "token"
    /\ refresh' = [refresh EXCEPT !.pc = "reply", !.ok = FALSE]
    /\ UNCHANGED <<clock, refreshIds, baseUrls, cachedItems, refreshLog>>

\* the store update after the loop, part_002 314-323
UpdatedStore(urls) ==
    [id \in DOMAIN cachedItems |->
        IF id \in DOMAIN urls
        THEN [baseUrl |-> urls[id], cachedAt |-> clock]
        ELSE cachedItems[id]]

\* One pass of the loop of refreshBaseUrls, part_002 293-311, whose
\* fetchWithRetry returned a response and whose body was parsed: S is the
\* set of ids of the batch that came back with a mediaItem (none when the
\* response is an error response without mediaItemResults). After the last
\* batch the store is updated and the handler returns the map.
RefreshBatchAnswered(S) ==
    /\ OnlyRefresh
    /\ refresh.pc = "batch"
    /\ LET batch == Batch(refresh.ids, refresh.i)
           last == refresh.i + BatchSize >= Len(refresh.ids)
           urls == [id \in DOMAIN refresh.urlMap \cup S |->
                       refreshLog.periods + 1]
       IN  /\ S \subseteq Range(batch)
           /\ refresh' = [refresh EXCEPT
                              !.requested = Append(@, batch),
                              !.urlMap = urls,
                              !.i = @ + BatchSize,
                              !.pc = IF last THEN "reply" ELSE "batch",
                              !.ok = last]
           /\ cachedItems' = IF last THEN UpdatedStore(urls) ELSE cachedItems
    /\ UNCHANGED <<clock, refreshIds, baseUrls, refreshLog>>

\* One pass of the loop whose fetchWithRetry threw (transport failure on the
\* last attempt, or the retries used up) or whose response.json() rejected:
\* refreshBaseUrls rejects, the handler's catch returns success: false
\* without urls. part_002 299-303, main.ts 458-461.
RefreshBatchThrows ==
    /\ OnlyRefresh
    /\ refresh.pc = "batch"
    /\ refresh' = [refresh EXCEPT
                       !.requested = Append(@, Batch(refresh.ids, refresh.i)),
                       !.pc = "reply", !.ok = FALSE]
    /\ UNCHANGED <<clock, refreshIds, baseUrls, cachedItems, refreshLog>>

\* Variant that keeps only the items a new locator came for
RefreshedItemsFound(items, urls, t) ==
    [id \in DOMAIN items \cap DOMAIN urls |->
        [baseUrl |-> urls[id], cachedAt |-> t]]
\* prev.map(item => ({...item, baseUrl: ..., cachedAt: Date.now()})),
\* lines 400-404
RefreshedItems(items, urls, t) ==
    [id \in DOMAIN items |->
        [baseUrl |-> MergedUrl(urls, id, items[id].baseUrl), cachedAt |-> t]]

\* refreshBaseUrls of the renderer after its await, lines 399-405, d minutes
\* after the call: with success and urls every item takes its new locator
\* or keeps its old one, and every item is stamped with Date.now().
RefreshReply(d) ==
    /\ OnlyRefresh
    /\ refresh.pc = "reply"
    /\ clock' = clock + d
    /\ baseUrls' =
          IF refresh.ok
          THEN RefreshedItems(baseUrls, refresh.urlMap, clock + d)
          ELSE baseUrls
    /\ refresh' = [refresh EXCEPT !.pc = "idle"]
    /\ refreshLog' = [periods |-> refreshLog.periods + 1,
                      absent |-> IF refresh.ok
                                 THEN Range(refresh.ids) \ DOMAIN refresh.urlMap
                                 ELSE Range(refresh.ids)]
    /\ UNCHANGED <<refreshIds, cachedItems>>

RefreshNext ==
    \/ LoadForRefresh
    \/ RefreshTimerFires
    \/ RefreshTokenOk
    \/ RefreshNoToken
    \/ \E S \in SUBSET (1..MaxItems) : RefreshBatchAnswered(S)
    \/ RefreshBatchThrows
    \/ \E d \in 0..MaxLatency : RefreshReply(d)

(***************************************************************************)
(* SCHEDULE GATE: main.ts checkSchedule 627-660, slideshow:set-state       *)
(* 326-330; App.tsx scheduleStateChanged listener 35-58; Slideshow.tsx     *)
(* mount effect 228-248.                                                   *)
(***************************************************************************)
\* lastScheduleState holds a boolean or null
Tri(b) == IF b THEN "true" ELSE "false"

\* Variant that reports every computed value
StateChangedAlways(shouldPlay, last) == TRUE
\* shouldPlay !== lastScheduleState (main.ts 655)
StateChanged(shouldPlay, last) == Tri(shouldPlay) # last

\* Variant that navigates whatever the store and the path are
NavigateAlways(p, r) == TRUE
\* result.value.length > 0 and !pathname.includes('slideshow')
\* (App.tsx 45-47)
ShouldNavigate(p, r) == p > 0 /\ r # "slideshow"

RECURSIVE Count(_, _)
Count(x, seq) ==
    IF seq = <<>> THEN 0
    ELSE (IF Head(seq) = x THEN 1 ELSE 0) + Count(x, Tail(seq))

OnlySchedule == UNCHANGED <<playVars, cacheVars, fetchVars, refreshVars,
                              tokenVars, preloadVars, sortVars,
     gridVars, lifeVars>>

\* main.ts 46-49; the app opens on the album page, nothing picked yet
ScheduleInit ==
    /\ lastScheduleState = NULL
    /\ isSlideshowRunning = FALSE
    /\ channel = <<>>
    /\ listening = FALSE
    /\ awaiting = <<>>
    /\ route = "albums"
    /\ picked = 0
    /\ lastNavigate = "none"
    /\ checks = 0

\* Variant that sends no stop for a running slideshow
StopNever(shouldPlay) == <<>>
\* What checkSchedule sends, lines 649-659
StopWhileRunning(shouldPlay) ==
    IF isSlideshowRunning /\ ~shouldPlay THEN <<FALSE>> ELSE <<>>

ChangeSignal(shouldPlay) ==
    IF StateChanged(shouldPlay, lastScheduleState) THEN <<shouldPlay>> ELSE <<>>

\* checkSchedule, lines 627-660, run by the one-minute interval and once at
\* start: hasWindow is mainWindow !== null, enabled is
\* settings.schedule.enabled, shouldPlay is the grid's cell for the present
\* day and hour.
checkSchedule(hasWindow, enabled, shouldPlay) ==
    /\ OnlySchedule
    /\ checks < MaxChecks
    /\ checks' = checks + 1
    /\ IF ~hasWindow
       THEN UNCHANGED <<lastScheduleState, channel>>
       ELSE IF ~enabled
       THEN /\ lastScheduleState' = NULL
            /\ UNCHANGED channel
       ELSE /\ channel' = channel \o StopWhileRunning(shouldPlay)
                                  \o ChangeSignal(shouldPlay)
            /\ lastScheduleState' =
                  IF StateChanged(shouldPlay, lastScheduleState)
                  THEN Tri(shouldPlay) ELSE lastScheduleState
    /\ UNCHANGED <<isSlideshowRunning, listening, awaiting, route, picked,
                   lastNavigate>>

\* App.tsx 35-39: once authenticated, the listener is registered
RegisterListener ==
    /\ OnlySchedule
    /\ ~listening
    /\ listening' = TRUE
    /\ UNCHANGED <<lastScheduleState, isSlideshowRunning, channel, awaiting,
                   route, picked, lastNavigate, checks>>

\* A message delivered to the renderer. Without a listener it is lost.
\* With shouldPlay the listener asks the store for pickedMediaItems and
\* suspends (App.tsx 43-44); without, on the slideshow page, it asks to
\* leave fullscreen and suspends (App.tsx 51-54).
ScheduleMessageDelivered ==
    /\ OnlySchedule
    /\ channel # <<>>
    /\ channel' = Tail(channel)
    /\ awaiting' =
          IF ~listening THEN awaiting
          ELSE IF Head(channel)
          THEN Append(awaiting, [kind |-> "start", picked |-> picked])
          ELSE IF route = "slideshow"
          THEN Append(awaiting, [kind |-> "stop", picked |-> picked])
          ELSE awaiting
    /\ UNCHANGED <<lastScheduleState, isSlideshowRunning, listening, route,
                   picked, lastNavigate, checks>>

\* The listener after its await: navigate('/slideshow') when something is
\* picked and the slideshow is not open (App.tsx 45-49); navigate('/albums')
\* (App.tsx 55).
ListenerResumes ==
    /\ OnlySchedule
    /\ awaiting # <<>>
    /\ awaiting' = Tail(awaiting)
    /\ LET a == Head(awaiting) IN
       IF a.kind = "start"
       THEN IF ShouldNavigate(a.picked, route)
            THEN route' = "slideshow" /\ lastNavigate' = "slideshow"
            ELSE route' = route /\ lastNavigate' = "none"
       ELSE route' = "albums" /\ lastNavigate' = "albums"
    /\ UNCHANGED <<lastScheduleState, isSlideshowRunning, channel, listening,
                   picked, checks>>

\* slideshow:set-state, main.ts 326-330, sent by the Slideshow page when it
\* has mounted (true) and when it unmounts (false), Slideshow.tsx 232, 246.
SlideshowSetState ==
    /\ OnlySchedule
    /\ isSlideshowRunning # (route = "slideshow")
    /\ isSlideshowRunning' = (route = "slideshow")
    /\ UNCHANGED <<lastScheduleState, channel, listening, awaiting, route,
                   picked, lastNavigate, checks>>

\* The user opens or leaves the slideshow (album page button, tray, Escape
\* key of the slideshow).
UserNavigates ==
    /\ OnlySchedule
    /\ listening
    /\ route' = IF route = "slideshow" THEN "albums" ELSE "slideshow"
    /\ UNCHANGED <<lastScheduleState, isSlideshowRunning, channel, listening,
                   awaiting, picked, lastNavigate, checks>>

\* The user picks photos or clears the selection on the album page.
UserPicks ==
    /\ OnlySchedule
    /\ route = "albums"
    /\ \E n \in 0..MaxPicked : n # picked /\ picked' = n
    /\ UNCHANGED <<lastScheduleState, isSlideshowRunning, channel, listening,
                   awaiting, route, lastNavigate, checks>>

ScheduleNext ==
    \/ \E w, en, sp \in BOOLEAN : checkSchedule(w, en, sp)
    \/ RegisterListener
    \/ ScheduleMessageDelivered
    \/ ListenerResumes
    \/ SlideshowSetState
    \/ UserNavigates
    \/ UserPicks

(***************************************************************************)
(* ACCESS TOKEN: GoogleAuthService, Slideshow.tsx 671-907. Time is counted *)
(* in units of the smallest expires_in.                                    *)
(***************************************************************************)
Callers == 1..MaxCallers

\* this.tokens = null (access 0: no access_token)
NoTokens == [access |-> 0, refresh |-> FALSE, expiry |-> 0]

\* Variant that takes no token for expired
ExpiredNever(expiry, t) == FALSE
\* this.tokens.expiry_date && this.tokens.expiry_date < Date.now() (886)
Expired(expiry, t) == expiry # 0 /\ expiry < t

\* What getAccessToken returned: this.tokens?.access_token || null, with the
\* expiry_date the same object held and Date.now() of the return.
Returned(c, tok, t, refreshed) ==
    [caller |-> c, token |-> tok.access, expiry |-> tok.expiry, at |-> t,
     refreshed |-> refreshed]
NoReturn == Returned(0, NoTokens, 0, FALSE)

OnlyToken == UNCHANGED <<playVars, cacheVars, fetchVars, refreshVars,
                         schedVars, preloadVars, sortVars,
     gridVars, lifeVars>>

TokenInit ==
    /\ tokens = NoTokens
    /\ now = 1
    /\ tokenPc = [c \in Callers |-> "idle"]
    /\ lastReturn = NoReturn
    /\ issued = 0

\* Date.now() moves on
Tick ==
    /\ OnlyToken
    /\ now < MaxTime
    /\ now' = now + 1
    /\ UNCHANGED <<tokens, tokenPc, lastReturn, issued>>

\* exchangeCodeForTokens, 795-831, from its response on: refresh_token is
\* data.refresh_token || '', expiry_date is Date.now() + expires_in * 1000.
exchangeCodeForTokens(expires_in, hasRefresh) ==
    /\ OnlyToken
    /\ issued < MaxIssued
    /\ issued' = issued + 1
    /\ tokens' = [access |-> issued + 1, refresh |-> hasRefresh,
                  expiry |-> now + expires_in]
    /\ UNCHANGED <<now, tokenPc, lastReturn>>

\* logout, 867-878, from the answer of the revoke call on: clearTokens
logout ==
    /\ OnlyToken
    /\ tokens # NoTokens
    /\ tokens' = NoTokens
    /\ UNCHANGED <<now, tokenPc, lastReturn, issued>>

\* getAccessToken and isAuthenticated, 880-907, up to the await of the
\* refresh call or to the return; refreshAccessToken 834-836.
getAccessToken(c) ==
    /\ OnlyToken
    /\ tokenPc[c] = "idle"
    /\ IF tokens.access = 0
       THEN /\ lastReturn' = Returned(c, NoTokens, now, FALSE)
            /\ UNCHANGED tokenPc
       ELSE IF Expired(tokens.expiry, now)
       THEN IF tokens.refresh
            THEN /\ tokenPc' = [tokenPc EXCEPT ![c] = "refreshing"]
                 /\ UNCHANGED lastReturn
            ELSE /\ lastReturn' = Returned(c, NoTokens, now, FALSE)
                 /\ UNCHANGED tokenPc
       ELSE /\ lastReturn' = Returned(c, tokens, now, FALSE)
            /\ UNCHANGED tokenPc
    /\ UNCHANGED <<tokens, now, issued>>

\* refreshAccessToken, 851-864, from its ok response on, and the return of
\* getAccessToken. this.tokens.refresh_token of a this.tokens that logout
\* cleared meanwhile throws; isAuthenticated catches it and returns false.
RefreshResponds(c, expires_in) ==
    /\ OnlyToken
    /\ tokenPc[c] = "refreshing"
    /\ tokenPc' = [tokenPc EXCEPT ![c] = "idle"]
    /\ IF tokens = NoTokens
       THEN /\ lastReturn' = Returned(c, NoTokens, now, FALSE)
            /\ UNCHANGED <<tokens, issued>>
       ELSE /\ issued < MaxIssued
            /\ issued' = issued + 1
            /\ tokens' = [access |-> issued + 1, refresh |-> tokens.refresh,
                          expiry |-> now + expires_in]
            /\ lastReturn' = Returned(c, tokens', now, TRUE)
    /\ UNCHANGED now

\* refreshAccessToken, 838-853: the call threw or its response is not ok;
\* isAuthenticated returns false and getAccessToken null.
RefreshFails(c) ==
    /\ OnlyToken
    /\ tokenPc[c] = "refreshing"
    /\ tokenPc' = [tokenPc EXCEPT ![c] = "idle"]
    /\ lastReturn' = Returned(c, NoTokens, now, FALSE)
    /\ UNCHANGED <<tokens, now, issued>>

TokenNext ==
    \/ Tick
    \/ \E e \in 1..MaxExpiresIn, r \in BOOLEAN : exchangeCodeForTokens(e, r)
    \/ logout
    \/ \E c \in Callers : getAccessToken(c)
    \/ \E c \in Callers, e \in 1..MaxExpiresIn : RefreshResponds(c, e)
    \/ \E c \in Callers : RefreshFails(c)

(***************************************************************************)
(* PRELOADER: Slideshow.tsx preloadNextImages 412-454 and its effect       *)
(* 457-461. The ids of the list are its positions 0 .. length - 1.         *)
(***************************************************************************)
PRELOAD_COUNT == 3
MAX_CACHED_IMAGES == 10

\* the ids the loop of lines 416-433 adds: (currentIndex + i) % length
AheadIds(index, length) ==
    {(index + i) % length : i \in 1..PRELOAD_COUNT}

\* idsToKeep, lines 437-445: (currentIndex + i + length) % length
idsToKeep(index, length) ==
    {(index + i + length) % length : i \in (0 - 2)..PRELOAD_COUNT}

\* Variant that never finds the set too large
OverLimitNever(set) == FALSE
\* preloaded.size > MAX_CACHED_IMAGES (436)
OverLimit(set) == Cardinality(set) > MAX_CACHED_IMAGES

\* Variant that takes no id for preloaded
HasNever(set, id) == FALSE
\* preloaded.has(nextItem.id) (420)
Has(set, id) == id \in set

\* The requests of the loop of lines 416-433 from pass i on: a getVideo or
\* getImage call, not awaited, for every id the set does not have yet;
\* set is the set as the earlier passes left it.
RECURSIVE Fetched(_, _, _, _)
Fetched(set, index, length, i) ==
    IF i > PRELOAD_COUNT THEN <<>>
    ELSE LET id == (index + i) % length
         IN  IF Has(set, id)
             THEN Fetched(set, index, length, i + 1)
             ELSE <<id>> \o Fetched(set \cup {id}, index, length, i + 1)

\* the set after the loop of one preloadNextImages call
Grown(set, index, length) == set \cup AheadIds(index, length)

preloadNextImages(set, index, length) ==
    IF OverLimit(Grown(set, index, length))
    THEN Grown(set, index, length) \cap idsToKeep(index, length)
    ELSE Grown(set, index, length)

OnlyPreload == UNCHANGED <<playVars, cacheVars, fetchVars, refreshVars,
                           schedVars, tokenVars, sortVars,
     gridVars, lifeVars>>

PreloadInit ==
    /\ preloaded = {}
    /\ preIndex = 0
    /\ preLength = 0
    /\ lastGrown = {}
    /\ lastFetched = <<>>
    /\ lastSettled = {}

\* setMediaItems(sortedItems) with a non-empty list: the effect of lines
\* 457-461 runs for currentIndex 0.
PreloadOnLoad(length) ==
    /\ OnlyPreload
    /\ preLength = 0
    /\ preLength' = length
    /\ lastGrown' = Grown(preloaded, 0, length)
    /\ lastFetched' = Fetched(preloaded, 0, length, 1)
    /\ lastSettled' = {}
    /\ preloaded' = preloadNextImages(preloaded, 0, length)
    /\ UNCHANGED preIndex

\* the index values setCurrentIndex is called with: goToNext, goToPrevious
\* and the two targets of the keydown listener (index 0 in its closure)
AdvanceTargets(index, length) ==
    {(index + 1) % length, (index - 1 + length) % length,
     1 % length, length - 1}

\* setCurrentIndex(target) changed currentIndex: the effect runs again.
PreloadOnAdvance(target) ==
    /\ OnlyPreload
    /\ preLength > 0
    /\ target \in AdvanceTargets(preIndex, preLength)
    /\ target # preIndex
    /\ preIndex' = target
    /\ lastGrown' = Grown(preloaded, target, preLength)
    /\ lastFetched' = Fetched(preloaded, target, preLength, 1)
    /\ lastSettled' = {}
    /\ preloaded' = preloadNextImages(preloaded, target, preLength)
    /\ UNCHANGED preLength

\* the promise of a getImage or getVideo call of the last
\* preloadNextImages call resolved or was rejected (lines 426-431)
PreloadFetchSettles(id) ==
    /\ OnlyPreload
    /\ id \in Range(lastFetched) \ lastSettled
    /\ lastSettled' = lastSettled \cup {id}
    /\ UNCHANGED <<preloaded, preIndex, preLength, lastGrown, lastFetched>>

PreloadNext ==
    \/ \E n \in 1..MaxPreloadItems : PreloadOnLoad(n)
    \/ \E t \in 0..(MaxPreloadItems - 1) : PreloadOnAdvance(t)
    \/ \E id \in 0..(MaxPreloadItems - 1) : PreloadFetchSettles(id)

(***************************************************************************)
(* ORDER AT LOAD: Slideshow.tsx loadMediaItems 340-376. A stored item is   *)
(* [id, creationTime]; its id is its position in the stored list and its   *)
(* creationTime a <<day, hour>> text.                                      *)
(***************************************************************************)
CreationTimes == (0..MaxDay) \X (0..1)

\* new Date(item.creationTime).getTime(), in hours
getTime(item) == item.creationTime[1] * 24 + item.creationTime[2]

StoredLists ==
    UNION {{[k \in 1..n |-> [id |-> k, creationTime |-> ts[k]]] :
               ts \in [1..n -> CreationTimes]} : n \in 0..MaxStored}

PhotoOrders == {"latest", "oldest", "random", "default"}

\* the comparators of lines 361-368; no comparator reorders nothing
Compare(order, a, b) ==
    IF order = "latest" THEN getTime(b) - getTime(a)
    ELSE IF order = "oldest" THEN getTime(a) - getTime(b)
    ELSE 0

\* Variant that puts an item before the items that compare equal to it
StaysBeforeStrict(c) == c < 0
\* Array.prototype.sort is stable: an earlier item stays before a later one
\* unless the comparator puts it after (result > 0)
StaysBefore(c) == c <= 0

RECURSIVE Insert(_, _, _)
Insert(order, sorted, x) ==
    IF sorted = <<>> THEN <<x>>
    ELSE IF StaysBefore(Compare(order, Head(sorted), x))
    THEN <<Head(sorted)>> \o Insert(order, Tail(sorted), x)
    ELSE <<x>> \o sorted

\* sortedItems.sort(comparator) of a copy of the stored list
RECURSIVE SortedPrefix(_, _, _)
SortedPrefix(order, items, n) ==
    IF n = 0 THEN <<>>
    ELSE Insert(order, SortedPrefix(order, items, n - 1), items[n])

sort(order, items) == SortedPrefix(order, items, Len(items))

Bijections(n) == {p \in [1..n -> 1..n] : \A i, j \in 1..n : p[i] = p[j] => i = j}

\* what sort(() => Math.random() - 0.5) can leave: any order of the items
Shuffles(items) ==
    {[k \in 1..Len(items) |-> items[p[k]]] : p \in Bijections(Len(items))}

OnlySort == UNCHANGED <<playVars, cacheVars, fetchVars, refreshVars,
                        schedVars, tokenVars, preloadVars,
     gridVars, lifeVars>>

SortInit ==
    /\ pickedMediaItems = <<>>
    /\ photoOrder = "unset"
    /\ sortedItems = <<>>

\* the picker stored a list and the settings an order, before the
\* slideshow is mounted
StorePicked(items, order) ==
    /\ OnlySort
    /\ photoOrder = "unset"
    /\ pickedMediaItems' = items
    /\ photoOrder' = order
    /\ sortedItems' = <<>>

\* loadMediaItems, lines 353-376: the copy, the switch and setMediaItems
SortOnLoad ==
    /\ OnlySort
    /\ Len(pickedMediaItems) > 0
    /\ sortedItems = <<>>
    /\ sortedItems' \in
          IF photoOrder = "random" THEN Shuffles(pickedMediaItems)
          ELSE {sort(photoOrder, pickedMediaItems)}
    /\ UNCHANGED <<pickedMediaItems, photoOrder>>

SortNext ==
    \/ \E items \in StoredLists, o \in PhotoOrders : StorePicked(items, o)
    \/ SortOnLoad

(***************************************************************************)
(* SCHEDULE GRID: main.ts checkSchedule 637-644; Settings.tsx DAYS 37 and  *)
(* defaultSettings 31-33. A stored grid is written as the one cell in      *)
(* which it differs from the all-false 7 x 24 grid.                        *)
(***************************************************************************)
\* Date.prototype.getDay(): 0 (Sunday) .. 6 (Saturday)
WeekDays == 0..6
GetDayNames == <<"Sun", "Mon", "Tue", "Wed", "Thu", "Fri", "Sat">>
\* Date.prototype.getHours()
Hours == 0..23
\* DAYS = ['월', '화', '수', '목', '금', '토', '일'], the rows of the grid
DAYS == <<"Mon", "Tue", "Wed", "Thu", "Fri", "Sat", "Sun">>

\* the cell holds true; the cell holds false; the row is missing; the row
\* has no such cell
Shapes == {"true", "false", "norow", "nocell"}
Grids == [row : 0..6, col : Hours, shape : Shapes]
NoGrid == [row |-> 0, col |-> 0, shape |-> "unset"]

\* Variant without the step from Sunday to the last row
DayIndexNoWrap(day) == day - 1
\* let dayIndex = now.getDay() - 1; if (dayIndex < 0) dayIndex = 6
DayIndex(day) == IF day - 1 < 0 THEN 6 ELSE day - 1

\* timeGrid[dayIndex]?.[hourIndex]: undefined for a missing row or cell
Cell(grid, dayIndex, hourIndex) ==
    IF dayIndex \notin 0..6 THEN "undefined"
    ELSE IF dayIndex = grid.row /\ grid.shape = "norow" THEN "undefined"
    ELSE IF dayIndex = grid.row /\ hourIndex = grid.col
    THEN (IF grid.shape = "nocell" THEN "undefined" ELSE grid.shape)
    ELSE "false"

\* ... ?? false
ShouldPlay(grid, dayIndex, hourIndex) ==
    IF Cell(grid, dayIndex, hourIndex) = "undefined" THEN FALSE
    ELSE Cell(grid, dayIndex, hourIndex) = "true"

NoRead == [day |-> 0 - 1, hour |-> 0 - 1, dayIndex |-> 0 - 1,
           hourIndex |-> 0 - 1, shouldPlay |-> FALSE]

OnlyGrid == UNCHANGED <<playVars, cacheVars, fetchVars, refreshVars,
                        schedVars, tokenVars, preloadVars, sortVars, lifeVars>>

GridInit ==
    /\ timeGrid = NoGrid
    /\ gridRead = NoRead

\* the settings page stored a grid
StoreGrid(grid) ==
    /\ timeGrid = NoGrid
    /\ timeGrid' = grid
    /\ UNCHANGED gridRead
    /\ OnlyGrid

\* checkSchedule, lines 637-644, on a day of the week and at an hour
ReadGrid(day, hour) ==
    /\ timeGrid # NoGrid
    /\ gridRead = NoRead
    /\ gridRead' = [day |-> day, hour |-> hour,
                    dayIndex |-> DayIndex(day), hourIndex |-> hour,
                    shouldPlay |-> ShouldPlay(timeGrid, DayIndex(day), hour)]
    /\ UNCHANGED timeGrid
    /\ OnlyGrid

GridNext ==
    \/ \E g \in Grids : StoreGrid(g)
    \/ \E d \in WeekDays, h \in Hours : ReadGrid(d, h)

(***************************************************************************)
(* MOUNT AND EXIT: Slideshow.tsx mount effect 229-248, cleanup 327-333,    *)
(* loadMediaItems 335-391; main.ts power:prevent-sleep 293-304. Every      *)
(* mount of the Slideshow page is an instance with its own refs.           *)
(***************************************************************************)
Instances == 1..MaxMounts

OnlyLife == UNCHANGED <<playVars, cacheVars, fetchVars, refreshVars,
                        schedVars, tokenVars, preloadVars, sortVars, gridVars>>

LifeInit ==
    /\ mountedInstance = 0
    /\ mounts = 0
    /\ loadPc = [i \in Instances |-> "none"]
    /\ refreshTimerRef = [i \in Instances |-> FALSE]
    /\ powerChannel = <<>>
    /\ powerSaveId = FALSE
    /\ activeBlockers = 0
    /\ firings = 0
    /\ firedAfterExit = FALSE

\* The mount effect with settingsLoaded, lines 229-232: loadMediaItems runs
\* up to its await of store.get('pickedMediaItems').
MountSlideshow ==
    /\ OnlyLife
    /\ mountedInstance = 0
    /\ mounts < MaxMounts
    /\ mounts' = mounts + 1
    /\ mountedInstance' = mounts + 1
    /\ loadPc' = [loadPc EXCEPT ![mounts + 1] = "items"]
    /\ UNCHANGED <<refreshTimerRef, powerChannel, powerSaveId, activeBlockers,
                   firings, firedAfterExit>>

\* loadMediaItems, lines 340-355: the stored list arrived. Without items
\* the function returns; otherwise it waits for store.get('settings').
LoadGotItems(i, hasItems) ==
    /\ OnlyLife
    /\ loadPc[i] = "items"
    /\ loadPc' = [loadPc EXCEPT ![i] = IF hasItems THEN "settings" ELSE "done"]
    /\ UNCHANGED <<mountedInstance, mounts, refreshTimerRef, powerChannel,
                   powerSaveId, activeBlockers, firings, firedAfterExit>>

\* loadMediaItems, lines 356-379: the settings arrived; sort, setMediaItems,
\* and the power:prevent-sleep request with true is sent and awaited.
LoadGotSettings(i) ==
    /\ OnlyLife
    /\ loadPc[i] = "settings"
    /\ loadPc' = [loadPc EXCEPT ![i] = "sleep"]
    /\ powerChannel' = Append(powerChannel, [prevent |-> TRUE, from |-> i])
    /\ UNCHANGED <<mountedInstance, mounts, refreshTimerRef, powerSaveId,
                   activeBlockers, firings, firedAfterExit>>

\* ipcMain.handle('power:prevent-sleep'), main.ts 294-304, for the oldest
\* request; the reply to a loadMediaItems lets it go on.
powerPreventSleep ==
    /\ OnlyLife
    /\ powerChannel # <<>>
    /\ powerChannel' = Tail(powerChannel)
    /\ LET m == Head(powerChannel) IN
       /\ IF m.prevent /\ ~powerSaveId
          THEN powerSaveId' = TRUE /\ activeBlockers' = activeBlockers + 1
          ELSE IF ~m.prevent /\ powerSaveId
          THEN powerSaveId' = FALSE /\ activeBlockers' = activeBlockers - 1
          ELSE UNCHANGED <<powerSaveId, activeBlockers>>
       /\ loadPc' = IF m.from \in Instances
                    THEN [loadPc EXCEPT ![m.from] = "arm"]
                    ELSE loadPc
    /\ UNCHANGED <<mountedInstance, mounts, refreshTimerRef, firings,
                   firedAfterExit>>

\* loadMediaItems, lines 381-384, after the await of preventSleep:
\* refreshTimerRef.current = setInterval(...)
LoadSetsRefreshTimer(i) ==
    /\ OnlyLife
    /\ loadPc[i] = "arm"
    /\ loadPc' = [loadPc EXCEPT ![i] = "done"]
    /\ refreshTimerRef' = [refreshTimerRef EXCEPT ![i] = TRUE]
    /\ UNCHANGED <<mountedInstance, mounts, powerChannel, powerSaveId,
                   activeBlockers, firings, firedAfterExit>>

\* The page is left (Escape or exit button, schedule stop, tray stop,
\* navigate('/albums')): the cleanup of the mount effect, lines 243-247 and
\* 327-333, clears the interval its ref holds and sends
\* power:prevent-sleep with false, without waiting for the reply.
cleanup ==
    /\ OnlyLife
    /\ mountedInstance # 0
    /\ refreshTimerRef' = [refreshTimerRef EXCEPT ![mountedInstance] = FALSE]
    /\ powerChannel' = Append(powerChannel, [prevent |-> FALSE, from |-> 0])
    /\ mountedInstance' = 0
    /\ UNCHANGED <<mounts, loadPc, powerSaveId, activeBlockers, firings,
                   firedAfterExit>>

\* The interval of an instance fires: refreshBaseUrls(sortedItems) sends a
\* photos:refresh-urls request (lines 382-384, 394-397).
RefreshIntervalFires(i) ==
    /\ OnlyLife
    /\ refreshTimerRef[i]
    /\ firings < MaxFirings
    /\ firings' = firings + 1
    /\ firedAfterExit' = (firedAfterExit \/ mountedInstance # i)
    /\ UNCHANGED <<mountedInstance, mounts, loadPc, refreshTimerRef,
                   powerChannel, powerSaveId, activeBlockers>>

LifeNext ==
    \/ MountSlideshow
    \/ \E i \in Instances, b \in BOOLEAN : LoadGotItems(i, b)
    \/ \E i \in Instances : LoadGotSettings(i)
    \/ powerPreventSleep
    \/ \E i \in Instances : LoadSetsRefreshTimer(i)
    \/ cleanup
    \/ \E i \in Instances : RefreshIntervalFires(i)

(***************************************************************************)
(* Specifications                                                          *)
(***************************************************************************)
AllInit ==
    /\ PlayInit /\ CacheInit /\ FetchInit /\ RefreshInit /\ ScheduleInit
    /\ TokenInit /\ PreloadInit /\ SortInit /\ GridInit /\ LifeInit

PlaybackInit == AllInit
Spec == PlaybackInit /\ [][PlayNext]_vars

CacheSpecInit == AllInit
CacheSpec == CacheSpecInit /\ [][CacheNext]_vars

FetchSpecInit == AllInit
FetchSpec == FetchSpecInit /\ [][FetchNext]_vars

RefreshSpecInit == AllInit
RefreshSpec == RefreshSpecInit /\ [][RefreshNext]_vars

ScheduleSpecInit == AllInit
ScheduleSpec == ScheduleSpecInit /\ [][ScheduleNext]_vars

\* A message sent to the renderer is delivered, and a listener suspended at
\* its await resumes; the interval and the user owe nothing.
FairScheduleSpec ==
    /\ ScheduleSpecInit /\ [][ScheduleNext]_vars
    /\ WF_vars(ScheduleMessageDelivered) /\ WF_vars(ListenerResumes)

TokenSpecInit == AllInit
TokenSpec == TokenSpecInit /\ [][TokenNext]_vars

PreloadSpecInit == AllInit
PreloadSpec == PreloadSpecInit /\ [][PreloadNext]_vars

SortSpecInit == AllInit
SortSpec == SortSpecInit /\ [][SortNext]_vars

GridSpecInit == AllInit
GridSpec == GridSpecInit /\ [][GridNext]_vars

LifeSpecInit == AllInit
LifeSpec == LifeSpecInit /\ [][LifeNext]_vars

\* The timers of the renderer fire; the network and the user owe nothing.
FairSpec ==
    /\ PlaybackInit /\ [][PlayNext]_vars
    /\ WF_vars(Stage1Fire) /\ WF_vars(Stage2Fire)
    /\ WF_vars(TimerFire) /\ WF_vars(LoadTimeoutFires)

(***************************************************************************)
(* Claims: playback                                                        *)
(***************************************************************************)

\* C1: an advance trigger that arrives while a transition is in progress is
\* dropped: it queues no index change (and so changes no index later).
C1_TriggerDroppedWhileTransitioning ==
    [][isTransitioning => Len(q50') <= Len(q50)]_vars

\* C2: with a non-empty sequence the current index is in [0, length), the
\* previous index is null or in [0, length), and every index an advance
\* computed (pending in a transition timeout) is in [0, length).
C2_IndexInRange ==
    Length > 0 =>
        /\ currentIndex \in 0..(Length - 1)
        /\ previousIndex = NoIndex \/ previousIndex \in 0..(Length - 1)
        /\ \A i \in 1..Len(q50) : q50[i] \in 0..(Length - 1)

\* C2 witness: an advance from the last index wrapped to index 0.
C2_Wrapped ==
    /\ Length >= 2 /\ isTransitioning
    /\ previousIndex = Length - 1 /\ currentIndex = 0

\* C3: whenever a load of the current item failed or timed out, the current
\* index eventually advances (setCurrentIndex runs), unless the item's bytes
\* arrive after all.
C3_NeverHangs == stalled ~> ~stalled

(***************************************************************************)
(* Claims: disk cache                                                      *)
(***************************************************************************)

\* C4: after any sequence of cache puts the bytes stored on disk never
\* exceed the configured capacity.
C4_TotalWithinCapacity == TotalBytes(files) <= MAX_CACHE_SIZE

\* A put completed in this step: file n now holds a complete entry.
PutCompletes(n) == files[n].state # "complete" /\ files'[n].state = "complete"

\* C5: a put whose bytes would push the total over capacity evicts first,
\* so that the total after the write is at most 70% of capacity.
C5_EvictBeforeWrite ==
    [][\A n \in FileNames :
          (PutCompletes(n) /\ TotalBytes(files) + files'[n].size > MAX_CACHE_SIZE)
              => TotalBytes(files') <= targetSize]_vars

\* position of x in seq (0 when absent)
Pos(seq, x) ==
    IF \E i \in 1..Len(seq) : seq[i] = x
    THEN CHOOSE i \in 1..Len(seq) : seq[i] = x
    ELSE 0

\* C6: eviction order follows last access: when the cleanup evicts an entry
\* x that was accessed (written or read) after entry y was, it has evicted
\* y before x.
C6_EvictionFollowsLastAccess ==
    [][\A x, y \in ImageCacheNames :
          ( /\ \E id \in Ids : CacheImageStart(id)
            /\ existsSync(files, x) /\ existsSync(files, y)
            /\ Pos(accessOrder, x) > Pos(accessOrder, y)
            /\ ~existsSync(files', x) )
          => ( /\ ~existsSync(files', y)
               /\ Pos(mtimeOrder, y) < Pos(mtimeOrder, x) )]_vars

\* What the renderer gets out of a data URL: its type and its bytes.
ParseDataUrl(u) == [type |-> u[2], bytes |-> Base64Decode(u[4])]

\* C7: a get-image answered from the cache returns exactly the content type
\* and the bytes that the put of that key stored.
C7_HitReturnsWhatWasPut ==
    (lastReply.op = "image" /\ lastReply.ok /\ lastReply.hit) =>
        ParseDataUrl(lastReply.data) =
            [type  |-> IF ContentTypeHeader(lastReply.id) = NULL
                       THEN "image/jpeg" ELSE ContentTypeHeader(lastReply.id),
             bytes |-> Bytes(lastReply.id)]

\* C7 witness: a get-image served from the cache, for an item whose download
\* carried a content-type header and for one whose download carried none.
C7_HitServed ==
    /\ lastReply.op = "image" /\ lastReply.ok /\ lastReply.hit
    /\ lastReply.id = 2 /\ existsSync(files, cachePath(1))

\* C8: a get answered from the cache never returns an entry whose write is
\* still in progress.
C8_NoPartialEntryReturned ==
    (lastReply.ok /\ lastReply.hit) => lastReply.complete

\* C9: never two fetch-and-write operations for the same cache key in
\* progress together.
C9_OneWriterPerKey == \A k \in Ops \X Ids : inflight[k] <= 1

(***************************************************************************)
(* Claims: retrying fetch                                                  *)
(***************************************************************************)

\* C10: one invocation performs at most 3 network attempts and always
\* terminates: until it has returned or thrown a step is enabled, and the
\* number of its steps (attempts and delays) is bounded.
C10_AtMostThreeAttemptsAndTerminates ==
    /\ fwr.attempts <= MAX_RETRIES
    /\ Len(fwr.waited) <= MAX_RETRIES
    /\ fwr.pc \in {"fetch", "wait"} => ENABLED FetchStep

\* C10 witness: an invocation that used all three attempts and ended.
C10_ThreeAttemptsMade ==
    fwr.attempts = MAX_RETRIES /\ fwr.pc \in {"returned", "threw"}

\* number of attempts of the invocation that did not end with a 429
RECURSIVE HardFailures(_)
HardFailures(h) ==
    IF h = <<>> THEN 0
    ELSE (IF Head(h) = 429 THEN 0 ELSE 1) + HardFailures(Tail(h))

\* C11: rate-limited (429) attempts do not count against the budget that
\* makes the fetch give up: an invocation that gave up made MAX_RETRIES
\* attempts that were not rate-limited.
C11_RateLimitNotCounted ==
    fwr.pc = "threw" => HardFailures(fwr.history) >= MAX_RETRIES

\* C12: the fetch never hands a non-2xx response to its caller as its
\* result; it fails instead.
C12_NeverReturnsNon2xx ==
    fwr.pc = "returned" => Ok(fwr.result)

(***************************************************************************)
(* Claims: locator refresh                                                 *)
(***************************************************************************)

\* C13: a refresh call asks a new locator only for items whose locator is
\* older than the 50-minute threshold: every id in a request of the call
\* has a locator age above BASE_URL_TTL at the time of the call.
C13_OnlyStaleItemsRequested ==
    refresh.pc # "idle" =>
        \A id \in RequestedIds(refresh) :
            clock - baseUrls[id].cachedAt > BASE_URL_TTL

\* C14: a failed batch does not abort the rest of the refresh call: when
\* the call answers, every batch has been requested and the locators that
\* came back are handed over to be merged.
C14_FailedBatchDoesNotAbort ==
    (refresh.pc = "reply" /\ refresh.requested # <<>>) =>
        /\ RequestedIds(refresh) = Range(refresh.ids)
        /\ DOMAIN refresh.urlMap # {} => refresh.ok

\* C15: an item that got no new locator from a refresh call (the call
\* failed, or its id was absent from the returned map) keeps the locator it
\* had, and the request of the next period holds its id again.
C15_FailedKeepsLocatorAndIsRetried ==
    [][/\ (refresh.pc = "reply" /\ refresh'.pc = "idle") =>
            \A id \in DOMAIN baseUrls :
                (~refresh.ok \/ id \notin DOMAIN refresh.urlMap)
                    => baseUrls'[id].baseUrl = baseUrls[id].baseUrl
       /\ (refresh.pc = "idle" /\ refresh'.pc = "token") =>
            refreshLog.absent \subseteq Range(refresh'.ids)]_vars

\* C15 witness: the request of the second period is out, holding an item
\* that a successful first call brought no locator for and that still has
\* the locator it was picked with.
C15_RetriedWithOldLocator ==
    /\ refresh.pc = "batch" /\ refreshLog.periods = 1
    /\ \E id \in refreshLog.absent :
         /\ id \in Range(refresh.ids)
         /\ baseUrls[id].baseUrl = 0
    /\ \E id \in DOMAIN baseUrls : baseUrls[id].baseUrl = 1

(***************************************************************************)
(* Claims: schedule gate                                                   *)
(***************************************************************************)

\* C16: one run of checkSchedule emits at most one stop signal (exactly one
\* for the true-to-false edge while the slideshow is showing), and a run
\* that computes false again while the slideshow is stopped emits nothing.
C16_OneStopPerEdge ==
    [][/\ Count(FALSE, channel') - Count(FALSE, channel) <= 1
       /\ (/\ ~isSlideshowRunning
           /\ lastScheduleState = "false"
           /\ lastScheduleState' = "false") => Len(channel') <= Len(channel)]_vars

\* C17: a should-start signal is emitted only when the computed value is
\* true and differs from lastScheduleState, and the listener invocation it
\* starts navigates to the slideshow only if the stored selection it read
\* is non-empty and the slideshow page is not open.
C17_StartOnRisingEdgeOnly ==
    [][/\ Count(TRUE, channel') > Count(TRUE, channel) =>
            (lastScheduleState # "true" /\ lastScheduleState' = "true")
       /\ (/\ Len(awaiting') < Len(awaiting)
           /\ lastNavigate' = "slideshow") =>
            /\ Head(awaiting).kind = "start"
            /\ Head(awaiting).picked > 0
            /\ route # "slideshow"]_vars

\* C17 witness: the listener has opened the slideshow on a should-start
\* signal.
C17_StartedBySchedule ==
    /\ lastScheduleState = "true"
    /\ lastNavigate = "slideshow" /\ route = "slideshow"

(***************************************************************************)
(* Claims: playback, continued                                             *)
(***************************************************************************)

C19_OneAdvancePerTransition ==
    [][(TimerFire \/ VideoEnd) =>
          IF isTransitioning
          THEN UNCHANGED <<q50, q500, currentIndex, previousIndex,
                           isTransitioning>>
          ELSE \/ q50' = q50
               \/ q50' = Append(q50, NextIndex(currentIndex, Length))]_vars

\* C19 witness: a transition started by the timer is in progress and the
\* video it brought up can deliver its end event before the transition
\* settles.
C19_SecondEventDuringTransition ==
    /\ isTransitioning /\ q500 > 0 /\ isPlaying
    /\ previousIndex # NoIndex /\ mediaItems[previousIndex + 1].kind = "image"
    /\ ENABLED VideoEnd

\* C20: a user next or previous accepted while no transition is in progress
\* moves the index by +1 or -1 modulo the length from the index displayed
\* at that moment, from the buttons and from the arrow keys alike.
C20_UserStepFromDisplayedIndex ==
    [][(Settled /\ ControlsRendered /\ q50' # q50) =>
          /\ (goToNextButton \/ KeyArrowRight) =>
                q50' = <<NextIndex(currentIndex, Length)>>
          /\ (goToPreviousButton \/ KeyArrowLeft) =>
                q50' = <<PrevIndex(currentIndex, Length)>>]_vars

\* C21: a transition that started completes: the transition flag becomes
\* false with the previous index cleared; the index changes only to the
\* index the accepted advance queued; and togglePlayPause leaves the
\* transition (its timeouts, flag and indices) as it is.
C21_TransitionCompletes ==
    /\ isTransitioning ~> (~isTransitioning /\ previousIndex = NoIndex)
    /\ [][/\ currentIndex' # currentIndex =>
                (q50 # <<>> /\ currentIndex' = Head(q50))
          /\ isPlaying' # isPlaying =>
                UNCHANGED <<q50, q500, isTransitioning, currentIndex,
                            previousIndex>>]_vars

\* C21 witness: the slideshow is paused while a transition is in progress,
\* the new index is current and the transition's last timeout is pending.
C21_PausedDuringTransition ==
    /\ isTransitioning /\ ~isPlaying /\ q50 = <<>> /\ q500 > 0
    /\ previousIndex # NoIndex /\ currentIndex # previousIndex

\* a handler called by the user's next / previous (button or arrow key)
UserNavigation ==
    goToNextButton \/ goToPreviousButton \/ KeyArrowRight \/ KeyArrowLeft

\* C22 as stated: while the slideshow is paused, only the user's next or
\* previous queues an index change.
C22_OnlyUserMovesWhilePaused ==
    [][(~isPlaying /\ Len(q50') > Len(q50)) => UserNavigation]_vars

\* C22, amended: while the slideshow is paused no auto-advance timer is
\* armed and a video-end event changes neither the index nor the
\* transition; an index change is queued only by the user's next or
\* previous or by a failed or timed-out load of the current item.
C22_PausedSuspendsAutoAdvance ==
    /\ [](~isPlaying => ~ENABLED TimerFire)
    /\ [][~isPlaying =>
            /\ VideoEnd => UNCHANGED <<q50, q500, currentIndex,
                                       previousIndex, isTransitioning>>
            /\ Len(q50') > Len(q50) =>
                  (UserNavigation \/ FetchFails \/ LoadTimeoutFires)]_vars

\* C22 witness: paused, a video has ended and nothing advanced.
C22_VideoEndedWhilePaused ==
    /\ ~isPlaying /\ Length >= 2 /\ Settled /\ previousIndex = NoIndex
    /\ InRange(mediaItems, currentIndex)
    /\ mediaItems[currentIndex + 1].kind = "video"
    /\ slide.ended

\* C23: a load that found no item sets the error and leaves the engine
\* idle: the list is empty, neither the auto-advance timer nor the locator
\* refresh timer is set, no index change is queued and the index stays 0.
C23_EmptyLoadStaysIdle ==
    (loadDone /\ Length = 0) =>
        /\ error /\ ~refreshTimerSet
        /\ ~ENABLED TimerFire
        /\ currentIndex = 0 /\ previousIndex = NoIndex
        /\ q50 = <<>> /\ q500 = 0 /\ ~isTransitioning
        /\ slide = NoSlide

\* C23 witness: the load found no item, and the user has pressed pause
\* since the start.
C23_EmptyLoaded ==
    loadDone /\ Length = 0 /\ error /\ ~isPlaying

\* C29: the auto-advance timer is armed only while the slideshow is
\* playing, no transition is in progress and the current item is an image.
C29_TimerForImagesOnly ==
    ENABLED TimerFire =>
        /\ isPlaying /\ ~isTransitioning
        /\ InRange(mediaItems, currentIndex)
        /\ mediaItems[currentIndex + 1].kind = "image"

\* C29 witness: a video is playing, no transition is in progress, and no
\* timer is armed.
C29_VideoWithoutTimer ==
    /\ isPlaying /\ Settled /\ InRange(mediaItems, currentIndex)
    /\ mediaItems[currentIndex + 1].kind = "video"
    /\ slide.mediaSrc /\ ~slide.ended
    /\ ~ENABLED TimerFire /\ ENABLED VideoEnd

\* C24: a download that answered ok is reported to the caller as a success
\* with the content, on the image path and on the video path, whether or
\* not the write of the cache file succeeded.
C24_WriteFailureStillDelivers ==
    [][\A id \in Ids :
          (ImageFetchOk(id) \/ VideoFetchOk(id)) =>
              (lastReply'.ok /\ lastReply'.data # <<>>)]_vars

\* C25: after clearCache no cache file is left, image or video, so the
\* sizes add up to 0 and a get for any key is a miss.
C25_ClearRemovesEverything ==
    [][clearCache =>
          /\ \A n \in FileNames : files'[n] = Absent
          /\ TotalBytes(files') = 0
          /\ \A id \in Ids : /\ ~existsSync(files', cachePath(id))
                             /\ ~existsSync(files', videoPath(id))]_vars

\* C30: a slideshow image or video download that failed with 429 or a 5xx
\* status was tried MAX_RETRIES times, as fetchWithRetry does.
C30_DownloadsAreRetried ==
    \A st \in {o \in Outcomes : o = 429 \/ o >= 500} :
        (lastReply.op \in {"image", "video"} /\ ~lastReply.ok
         /\ lastReply.data = ErrorText(st)) => fetchCalls = MAX_RETRIES

(***************************************************************************)
(* Claims: access token, preloader, order at load                          *)
(***************************************************************************)

\* C26: what getAccessToken returns is null or a token whose expiry time is
\* not before the time of the return.
C26_ReturnedTokenNotExpired ==
    lastReturn.token # 0 => lastReturn.expiry >= lastReturn.at

\* C26 witness: a call found the stored token expired, refreshed it and
\* returned the new token, while time had moved on.
C26_ReturnedAfterRefresh ==
    /\ lastReturn.token # 0 /\ lastReturn.refreshed
    /\ lastReturn.at > 2 /\ tokens.access = lastReturn.token

\* the ids of the items from 2 behind through 3 ahead of the current index
Window == {(preIndex + i) % preLength : i \in (0 - 2)..3}

\* C27 as stated: after every call the set holds at most 10 ids, and when
\* it grew past 10 during the call it is exactly the ids of the window.
C27_PrunedToExactWindow ==
    preLength > 0 =>
        /\ Cardinality(preloaded) <= 10
        /\ Cardinality(lastGrown) > 10 => preloaded = Window

\* C27, amended: after every call the set holds at most 10 ids; when it
\* grew past 10 during the call it is what it held of the window (every id
\* outside the window is dropped, no id is added), and otherwise nothing
\* is dropped.
C27_BoundedAndPrunedIntoWindow ==
    preLength > 0 =>
        /\ Cardinality(preloaded) <= 10
        /\ Cardinality(lastGrown) > 10 => preloaded = lastGrown \cap Window
        /\ Cardinality(lastGrown) <= 10 => preloaded = lastGrown

\* C27 witness: the last call grew the set past 10 and pruned it to fewer
\* ids than the window has.
C27_PrunedBelowWindow ==
    /\ preLength > 0 /\ Cardinality(lastGrown) > 10
    /\ preloaded # Window /\ preloaded # {}

\* sortedItems holds every stored item once
IsPermutation(sorted, items) ==
    /\ Len(sorted) = Len(items)
    /\ \A k \in 1..Len(items) :
          \E j \in 1..Len(sorted) :
             /\ sorted[j] = items[k]
             /\ \A i \in 1..Len(sorted) : sorted[i].id = k => i = j

\* C28: the loaded list is a permutation of the stored list under every
\* order; under latest the creation times do not increase and under oldest
\* they do not decrease along the list, and items of equal creation time
\* are in the order of the stored list.
C28_OrderedStablePermutation ==
    sortedItems # <<>> =>
        /\ IsPermutation(sortedItems, pickedMediaItems)
        /\ \A i, j \in 1..Len(sortedItems) :
              i < j =>
                 /\ photoOrder = "latest" =>
                       getTime(sortedItems[i]) >= getTime(sortedItems[j])
                 /\ photoOrder = "oldest" =>
                       getTime(sortedItems[i]) <= getTime(sortedItems[j])
                 /\ (photoOrder \in {"latest", "oldest"}
                     /\ getTime(sortedItems[i]) = getTime(sortedItems[j])) =>
                       sortedItems[i].id < sortedItems[j].id
                 /\ photoOrder = "default" =>
                       sortedItems[i].id < sortedItems[j].id

\* C28 witness: three items were loaded under latest; two have the same
\* creation time, the third is later and stored last.
C28_SortedWithTie ==
    /\ photoOrder = "latest" /\ Len(sortedItems) = 3
    /\ getTime(pickedMediaItems[1]) = getTime(pickedMediaItems[2])
    /\ getTime(pickedMediaItems[3]) > getTime(pickedMediaItems[1])
    /\ sortedItems[1].id = 3

(***************************************************************************)
(* Claims: backoff, batches, preload requests, freshness, frames           *)
(***************************************************************************)

\* C31: the k-th wait of an invocation lasts 1000 * 2^(k-1) ms, and an
\* invocation that has ended waited once between every two attempts and
\* not after its last attempt: 1000, then 2000, and no more.
C31_BackoffBetweenAttemptsOnly ==
    /\ \A k \in DOMAIN fwr.waited : fwr.waited[k] = 1000 * Pow2(k - 1)
    /\ fwr.pc \in {"returned", "threw"} =>
          Len(fwr.waited) = fwr.attempts - 1

\* C32: a refreshBaseUrls call that has ended sent ceil(n / 50) requests
\* for its n ids, each with at most 50 ids, and every id of the list is in
\* exactly one of them.
C32_EveryIdInOneBatch ==
    (refresh.pc = "reply" /\ refresh.requested # <<>>) =>
        /\ Len(refresh.requested) =
              (Len(refresh.ids) + BatchSize - 1) \div BatchSize
        /\ \A k \in DOMAIN refresh.requested :
              Len(refresh.requested[k]) <= BatchSize
        /\ \A id \in Range(refresh.ids) :
              Cardinality({k \in DOMAIN refresh.requested :
                              id \in Range(refresh.requested[k])}) = 1

\* C33: a call of preloadNextImages for a new index sends one request for
\* every id among the next 3 items (wrapping) that the set does not hold,
\* none for an id the set holds and none twice; it ends with none of its
\* requests settled (it waits for none); and the set holds the 3 ids
\* afterwards.
C33_FetchesNextThreeOnce ==
    [][(preIndex' # preIndex \/ preLength' # preLength) =>
          LET next == {(preIndex' + i) % preLength' : i \in 1..3} IN
          /\ Range(lastFetched') = next \ preloaded
          /\ Len(lastFetched') = Cardinality(Range(lastFetched'))
          /\ lastSettled' = {}
          /\ next \subseteq preloaded']_vars

\* C33 witness: a call for a new index found some of its 3 ids in the set
\* and sent requests for the others, none of which has settled yet.
C33_AdvancedWhileFetching ==
    /\ preLength > 3 /\ preIndex # 0
    /\ Len(lastFetched) \in 1..2
    /\ lastSettled = {}
    /\ Cardinality(preloaded) > 3

\* C34: the issuance timestamp of an item, in the renderer's list and in
\* the main process's store, changes only in a step that changes the item's
\* locator.
C34_StampedOnlyWhenReissued ==
    [][/\ \A id \in DOMAIN baseUrls \cap DOMAIN baseUrls' :
             baseUrls'[id].cachedAt # baseUrls[id].cachedAt =>
                baseUrls'[id].baseUrl # baseUrls[id].baseUrl
       /\ \A id \in DOMAIN cachedItems \cap DOMAIN cachedItems' :
             cachedItems'[id].cachedAt # cachedItems[id].cachedAt =>
                cachedItems'[id].baseUrl # cachedItems[id].baseUrl]_vars

\* the renderer's part of a refresh call: setMediaItems of lines 399-405
RefreshApplied == refresh.pc = "reply" /\ refresh'.pc = "idle"

\* C35: a refresh keeps the items of the list (same ids, same number) and
\* leaves the [id, kind] sequence, the current and the previous index and
\* the playing and transitioning state as they were.
C35_RefreshKeepsSequenceAndCursor ==
    [][RefreshApplied =>
          /\ DOMAIN baseUrls' = DOMAIN baseUrls
          /\ UNCHANGED <<mediaItems, currentIndex, previousIndex, isPlaying,
                         isTransitioning>>]_vars

\* C35 witness: a refresh has given one item of three a new locator and
\* left another with its old one.
C35_PartlyReissued ==
    /\ refreshLog.periods >= 1 /\ refresh.pc = "idle"
    /\ DOMAIN baseUrls = 1..3
    /\ \E a, b \in DOMAIN baseUrls :
          baseUrls[a].baseUrl # 0 /\ baseUrls[b].baseUrl = 0

(***************************************************************************)
(* Claims: schedule check                                                  *)
(***************************************************************************)

\* C36: a schedule check made with the schedule enabled, while the
\* slideshow is running and the grid says false, sends a stop message,
\* whether or not the gate value changed; a check made with the schedule
\* disabled sends nothing; and once a stop message is on its way to a
\* registered listener the slideshow page is left.
C36_StopAtEveryCheck ==
    /\ [][\A en, sp \in BOOLEAN :
             checkSchedule(TRUE, en, sp) =>
                /\ (en /\ isSlideshowRunning /\ ~sp) =>
                      Count(FALSE, channel') > Count(FALSE, channel)
                /\ ~en => channel' = channel]_vars
    /\ (listening /\ Count(FALSE, channel) > 0) ~> (route = "albums")

\* C36 witness: two checks have sent three stop messages: the second check
\* found the slideshow running and the gate false as before.
C36_StoppedWithoutChange ==
    /\ checks = 2 /\ channel = <<FALSE, FALSE, FALSE>>
    /\ lastScheduleState = "false" /\ isSlideshowRunning

\* C37: checkSchedule reads the row (day + 6) mod 7 of the grid, which is
\* the row the settings page shows for that weekday and lies in 0..6, and
\* the column of the hour, which lies in 0..23; the value is true only
\* when that cell is there and holds true.
C37_GridCellOfDayAndHour ==
    gridRead # NoRead =>
        /\ gridRead.dayIndex = (gridRead.day + 6) % 7
        /\ gridRead.dayIndex \in 0..6
        /\ DAYS[gridRead.dayIndex + 1] = GetDayNames[gridRead.day + 1]
        /\ gridRead.hourIndex = gridRead.hour /\ gridRead.hourIndex \in 0..23
        /\ gridRead.shouldPlay =
              (/\ timeGrid.shape = "true"
               /\ timeGrid.row = (gridRead.day + 6) % 7
               /\ timeGrid.col = gridRead.hour)

\* C37 witness: on a Sunday at 23 h the check found the last row's last
\* cell true.
C37_SundayLastHour ==
    /\ gridRead.day = 0 /\ gridRead.hour = 23 /\ gridRead.dayIndex = 6
    /\ gridRead.shouldPlay

(***************************************************************************)
(* Claims: mount and exit                                                  *)
(***************************************************************************)

\* C38: only the mounted instance of the slideshow page holds a running
\* refresh interval, and no interval fires for a page that has been left.
C38_NoRefreshTimerAfterExit ==
    /\ \A i \in Instances : refreshTimerRef[i] => mountedInstance = i
    /\ ~firedAfterExit

\* C39: at most one power-save blocker is active, and once the page is left
\* and the main process has handled every request, none is.
C39_BlockerReleasedAfterExit ==
    /\ activeBlockers <= 1
    /\ (mountedInstance = 0 /\ powerChannel = <<>>
        /\ \A i \in Instances : loadPc[i] \in {"none", "done", "arm"}) =>
          activeBlockers = 0

====
